---- MODULE Spec2Model ----
(***************************************************************************)
(* Model of the itsm-tools HTTP request engine (AtlassianClient._request   *)
(* and its wrappers, atlassian/base.py) and of the credential resolver     *)
(* (atlassian/credentials.py).                                             *)
(*                                                                         *)
(* Strings are sequences of one-character strings; Python's None is the    *)
(* one-element sequence None.  A delay in seconds is a positive or         *)
(* negative rational <<numerator, denominator>> with denominator > 0, so   *)
(* that non-integer backoff factors are exact.                             *)
(***************************************************************************)
EXTENDS Integers, Sequences, FiniteSets, TLC

\* ------------------------------------------------------------------ bounds
\* largest max_retries the request specification draws
MaxRetries == 2
\* largest max_retries the server-error specification draws
MaxRetriesDeep == 4

\* registrations, constructor calls and method calls a behaviour makes
MaxRegistrations == 2

MaxConstructions == 1

MaxConstructionsDeep == 2

MaxCalls == 4

\* the writes of another client while append_to_page runs
MaxOtherWrites == 2

\* ------------------------------------------------------- program constants
DEFAULT_RETRY_STATUSES == {429, 500, 502, 503, 504}

\* --------------------------------------------------------------- the values
None == <<"None">>

\* Python truthiness of an optional string: None and "" are falsy
Truthy(v) == v # None /\ v # <<>>

\* status codes the mocked server may answer with
Statuses == {200, 204, 304, 400, 401, 403, 404, 429, 500, 502, 503, 504}

\* the server-error statuses of DEFAULT_RETRY_STATUSES
ServerErrors == {500, 502, 503, 504}

\* values of the Retry-After header of a 429 response (None: header absent)
RetryAfterHeaders ==
    {None, <<>>, <<"0">>, <<"2">>, <<"-", "1">>, <<"1", ".", "5">>}

\* response bodies, by what response.json() makes of them
Bodies == {"json_object", "empty", "malformed"}

\* backoff_factor values: 2.0 (the default) and 1.5
BackoffFactors == {<<2, 1>>, <<3, 2>>}

\* retry_statuses values: the default and a caller-supplied tuple
RetryStatusSets == {DEFAULT_RETRY_STATUSES, {400, 401, 403, 404, 503}}

\* the entry points: _request itself and its four wrappers
Methods == {"REQUEST", "GET", "POST", "PUT", "DELETE"}

NoException == [type |-> "None"]
NoResponse == [status |-> 0, header |-> None, body |-> "none"]
NoResult == [kind |-> "none"]

VARIABLES
    pc,              \* "idle", "loop" (an attempt is due), "done"
    method,          \* entry point of the call in progress
    max_retries,     \* self.max_retries
    backoff_factor,  \* self.backoff_factor
    retry_statuses,  \* the retry_statuses argument
    attempt,         \* the loop variable of _request
    last_exception,  \* "None", "Timeout" or "ConnectionError"
    history,         \* outcomes of the HTTP attempts made, in order
    sleeps,          \* arguments of the time.sleep calls made, in order
    returned,        \* the response _request returned, or NoResponse
    raised,          \* the exception that left the call, or NoException
    result,          \* the value the call returned, or NoResult
    environ,         \* os.environ, the three credential variables
    keyring_store,   \* the keyring entries of the service
    dotenv,          \* the mapping _load_dotenv returns
    explicit,        \* the explicit arguments of the last get_credentials
    resolved,        \* resolved_url / resolved_email / resolved_token
    creds,           \* the AtlassianCredentials returned
    cred_error,      \* the fields the ValueError names, in order
    cred_pc,         \* get_credentials: "idle", "returned" or "raised"
    saved,           \* the triple the last save_credentials stored
    delete_log,      \* the delete_password calls of the last delete_credentials
    delete_raised,   \* the exception that left delete_credentials
    registry,        \* the three registries, by interface_type
    sys_modules,     \* the adapter-package modules imported so far
    reg_log,         \* the registrations made, in order
    provider_env,    \* os.environ, the three provider variables
    instances,       \* the adapter instances constructed, in order
    constructions,   \* the constructor calls the getters made
    ctor_args,       \* class and argument of the last constructor call
    last_call,       \* the last getter or list_adapters call
    reg_result,      \* what the last registry call returned or raised
    import_faults,   \* what the body of each module raises when it runs
    import_log,      \* the packages the last _import_adapters tried
    tc_pc,           \* test_connection: "idle", "primary", "secondary", "done"
    tc_returned,     \* the value test_connection returned, or "None"
    tc_raised,       \* the exception that left test_connection
    probes,          \* the probes that ended, with how they ended
    adapter,         \* the class of the adapter constructed, or "None"
    connected,       \* its _connected flag
    session_open,    \* its HTTP session has not been closed
    calls,           \* the methods called on it, in order
    block,           \* the with block: "outside", "inside" or how it ended
    page,            \* the Confluence page as the server stores it
    ap_pc,           \* where append_to_page stands
    ap_content,      \* its content argument
    ap_new_content,  \* the content it computed from what it read
    ap_version,      \* current.version as update_page read it
    put_outcome,     \* what the server made of the PUT of update_page
    others,          \* the writes of another client, with when they came
    ap_raised,       \* the exception that left append_to_page
    ap_result,       \* the Page append_to_page returned
    ac_pc,           \* where add_comment stands
    ac_args,         \* its arguments
    ac_requests,     \* the comment requests it sent, in order
    ac_created,      \* the request that created the comment, 0 for none
    ac_raised,       \* the exception that left add_comment
    ac_result        \* the Result add_comment returned

reqVars == <<pc, method, max_retries, backoff_factor, retry_statuses,
             attempt, last_exception, history, sleeps, returned, raised,
             result>>
credVars == <<environ, keyring_store, dotenv, explicit, resolved, creds,
              cred_error, cred_pc, saved, delete_log, delete_raised>>
regVars == <<registry, sys_modules, reg_log, provider_env, instances,
             constructions, ctor_args, last_call, reg_result,
             import_faults, import_log>>
probeVars == <<tc_pc, tc_returned, tc_raised, probes>>
adapterVars == <<adapter, connected, session_open, calls, block>>
pageVars == <<page, ap_pc, ap_content, ap_new_content, ap_version,
              put_outcome, others, ap_raised, ap_result>>
commentVars == <<ac_pc, ac_args, ac_requests, ac_created, ac_raised,
                 ac_result>>
vars == <<pc, method, max_retries, backoff_factor, retry_statuses,
          attempt, last_exception, history, sleeps, returned, raised,
          result,
          environ, keyring_store, dotenv, explicit, resolved, creds,
          cred_error, cred_pc, saved, delete_log, delete_raised,
          registry, sys_modules, reg_log, provider_env, instances,
          constructions, ctor_args, last_call, reg_result,
          import_faults, import_log,
          tc_pc, tc_returned, tc_raised, probes,
          adapter, connected, session_open, calls, block,
          page, ap_pc, ap_content, ap_new_content, ap_version,
          put_outcome, others, ap_raised, ap_result,
          ac_pc, ac_args, ac_requests, ac_created, ac_raised, ac_result>>

\* ----------------------------------------------------- pure helper functions
Digits == <<"0", "1", "2", "3", "4", "5", "6", "7", "8", "9">>

IsDigit(c) == \E i \in 1..10 : Digits[i] = c

DigitValue(c) == (CHOOSE i \in 1..10 : Digits[i] = c) - 1

RECURSIVE DigitsValue(_)
DigitsValue(s) ==
    IF s = <<>> THEN 0
    ELSE 10 * DigitsValue(SubSeq(s, 1, Len(s) - 1)) + DigitValue(s[Len(s)])

AllDigits(s) == Len(s) > 0 /\ \A i \in 1..Len(s) : IsDigit(s[i])

\* int(s) succeeds: an optional sign followed by decimal digits
IntParses(s) ==
    /\ Len(s) > 0
    /\ IF s[1] \in {"-", "+"} THEN AllDigits(Tail(s)) ELSE AllDigits(s)

\* int(s), for a string that parses
IntValue(s) ==
    IF s[1] = "-" THEN 0 - DigitsValue(Tail(s))
    ELSE IF s[1] = "+" THEN DigitsValue(Tail(s))
    ELSE DigitsValue(s)

\* an integer number of seconds as a delay
Seconds(k) == <<k, 1>>

\* a backoff that counts attempts from one
calculate_backoff_from_one(f, a) == <<f[1] ^ (a + 1), f[2] ^ (a + 1)>>

\* self.backoff_factor ** attempt
calculate_backoff(f, a) == <<f[1] ^ a, f[2] ^ a>>

\* int(x) of a positive rational
IntOf(d) == d[1] \div d[2]

\* _get_retry_after: the header when it is truthy and parses as an
\* integer, else the backoff truncated to an integer
get_retry_after(h, f, a) ==
    IF Truthy(h) /\ IntParses(h) THEN IntValue(h)
    ELSE IntOf(calculate_backoff(f, a))

\* _safe_json: the parsed body, or the raw text when parsing fails
safe_json(body) == IF body = "json_object" THEN "dict" ELSE "text"

\* a loop that runs one iteration too many
LoopRangeOneMore(n) == 0..(n + 1)

\* range(self.max_retries + 1)
LoopRange(n) == 0..n

\* a budget test that lets the last attempt retry
AttemptsRemainInclusive(a, n) == a <= n

\* attempt < self.max_retries
AttemptsRemain(a, n) == a < n

\* time.sleep(d) raises ValueError for a negative argument
SleepRaises(d) == d[1] < 0

\* ------------------------------------------------------------- the outcomes
Resp(s, h, b) == [kind |-> "response", status |-> s, header |-> h, body |-> b]
TimeoutOutcome ==
    [kind |-> "timeout", status |-> 0, header |-> None, body |-> "none"]
ConnectionErrorOutcome ==
    [kind |-> "connection_error", status |-> 0, header |-> None,
     body |-> "none"]

\* ----------------------------------------------------------- the exceptions
Unauthorized ==
    [type |-> "AuthenticationError",
     message |-> "Authentication failed. Check your credentials.",
     status_code |-> 401]
Forbidden ==
    [type |-> "AuthenticationError",
     message |-> "Access forbidden. Check your permissions.",
     status_code |-> 403]
NotFound ==
    [type |-> "NotFoundError", message |-> "Resource not found",
     status_code |-> 404]
RateLimited(k) ==
    [type |-> "RateLimitError",
     message |-> "Rate limit exceeded. Try again later.",
     retry_after |-> k, status_code |-> 429]
RequestFailed(s, b) ==
    [type |-> "ProviderError", message |-> "Request failed",
     status_code |-> s, response |-> safe_json(b)]
\* an exception the engine does not classify
Unclassified(t) == [type |-> t, message |-> "unclassified"]

\* code after the loop that does not tell a timeout from a connection failure
AfterLoopUntyped(lastExc, n) ==
    IF lastExc \in {"Timeout", "ConnectionError"}
    THEN [type |-> "ITSMConnectionError", message |-> "Connection failed",
          attempts |-> n + 1, cause |-> lastExc]
    ELSE [type |-> "ProviderError",
          message |-> "Request failed after all retry attempts"]

\* the code after the loop: "All retries exhausted"
AfterLoop(lastExc, n) ==
    IF lastExc = "Timeout"
    THEN [type |-> "ITSMConnectionError", message |-> "Request timed out",
          attempts |-> n + 1, cause |-> lastExc]
    ELSE IF lastExc = "ConnectionError"
    THEN [type |-> "ITSMConnectionError", message |-> "Connection failed",
          attempts |-> n + 1, cause |-> lastExc]
    ELSE [type |-> "ProviderError",
          message |-> "Request failed after all retry attempts"]

\* status checks that test the retry set before the terminal statuses
StatusClassRetryFirst(s, rs, a, n) ==
    IF s \in rs /\ AttemptsRemain(a, n) /\ s # 429 THEN "retry"
    ELSE IF s = 401 THEN "unauthorized"
    ELSE IF s = 403 THEN "forbidden"
    ELSE IF s = 404 THEN "not_found"
    ELSE IF s = 429 THEN "rate_limited"
    ELSE IF s >= 400 THEN "error"
    ELSE "success"

\* the branch of the status checks of _request a response takes, in the
\* order the code tests them
StatusClass(s, rs, a, n) ==
    IF s = 401 THEN "unauthorized"
    ELSE IF s = 403 THEN "forbidden"
    ELSE IF s = 404 THEN "not_found"
    ELSE IF s = 429 THEN "rate_limited"
    ELSE IF s \in rs /\ AttemptsRemain(a, n) THEN "retry"
    ELSE IF s >= 400 THEN "error"
    ELSE "success"

\* what the entry point makes of the response _request returned:
\* _request hands it back, _get parses it, _post and _put return {} for 204,
\* _delete returns None for 204
WrapperOutcome(m, s, b) ==
    LET parsed ==
            IF b = "json_object"
            THEN [raised |-> NoException,
                  result |-> [kind |-> "dict", status |-> s]]
            ELSE [raised |-> Unclassified("JSONDecodeError"),
                  result |-> NoResult]
    IN  IF m = "REQUEST"
        THEN [raised |-> NoException,
              result |-> [kind |-> "response", status |-> s]]
        ELSE IF m = "GET" THEN parsed
        ELSE IF m \in {"POST", "PUT"}
        THEN IF s = 204
             THEN [raised |-> NoException,
                   result |-> [kind |-> "empty_dict", status |-> s]]
             ELSE parsed
        ELSE IF s = 204
             THEN [raised |-> NoException,
                   result |-> [kind |-> "None", status |-> s]]
             ELSE parsed

\* ------------------------------------------------------ the request engine
InLoop == pc = "loop" /\ attempt \in LoopRange(max_retries)

config == <<method, max_retries, backoff_factor, retry_statuses>>

\* raise exc out of _request
Raise(exc) ==
    /\ pc' = "done"
    /\ raised' = exc
    /\ UNCHANGED <<attempt, sleeps, returned, result>>

\* a loop whose counter stays where it is when the engine retries
EndIterationSameAttempt(lastExc) ==
    IF attempt + 1 \in LoopRange(max_retries)
    THEN /\ attempt' = attempt
         /\ pc' = "loop"
         /\ raised' = NoException
    ELSE /\ attempt' = attempt
         /\ pc' = "done"
         /\ raised' = AfterLoop(lastExc, max_retries)

\* the iteration is over: the next value of the range, or the code after
\* the loop
EndIteration(lastExc) ==
    IF attempt + 1 \in LoopRange(max_retries)
    THEN /\ attempt' = attempt + 1
         /\ pc' = "loop"
         /\ raised' = NoException
    ELSE /\ attempt' = attempt
         /\ pc' = "done"
         /\ raised' = AfterLoop(lastExc, max_retries)

\* time.sleep(d); continue
SleepAndContinue(d, lastExc) ==
    /\ UNCHANGED <<returned, result>>
    /\ IF SleepRaises(d)
       THEN /\ sleeps' = sleeps
            /\ attempt' = attempt
            /\ pc' = "done"
            /\ raised' = Unclassified("ValueError")
       ELSE /\ sleeps' = Append(sleeps, d)
            /\ EndIteration(lastExc)

\* a call of _request, or of a wrapper, begins
BeginRequest(maxN) ==
    /\ pc = "idle"
    /\ method' \in Methods
    /\ max_retries' \in 0..maxN
    /\ backoff_factor' \in BackoffFactors
    /\ retry_statuses' \in RetryStatusSets
    /\ attempt' = 0
    /\ pc' = "loop"
    /\ UNCHANGED <<last_exception, history, sleeps, returned, raised, result>>
    /\ UNCHANGED <<credVars, regVars, probeVars, adapterVars,
                   pageVars, commentVars>>

Respond401 ==
    /\ InLoop
    /\ StatusClass(401, retry_statuses, attempt, max_retries) = "unauthorized"
    /\ history' = Append(history, Resp(401, None, "unread"))
    /\ Raise(Unauthorized)
    /\ UNCHANGED <<config, last_exception>>
    /\ UNCHANGED <<credVars, regVars, probeVars, adapterVars,
                   pageVars, commentVars>>

Respond403 ==
    /\ InLoop
    /\ StatusClass(403, retry_statuses, attempt, max_retries) = "forbidden"
    /\ history' = Append(history, Resp(403, None, "unread"))
    /\ Raise(Forbidden)
    /\ UNCHANGED <<config, last_exception>>
    /\ UNCHANGED <<credVars, regVars, probeVars, adapterVars,
                   pageVars, commentVars>>

Respond404 ==
    /\ InLoop
    /\ StatusClass(404, retry_statuses, attempt, max_retries) = "not_found"
    /\ history' = Append(history, Resp(404, None, "unread"))
    /\ Raise(NotFound)
    /\ UNCHANGED <<config, last_exception>>
    /\ UNCHANGED <<credVars, regVars, probeVars, adapterVars,
                   pageVars, commentVars>>

\* 429: wait and retry while attempts remain, else RateLimitError
Respond429(h) ==
    /\ InLoop
    /\ StatusClass(429, retry_statuses, attempt, max_retries) = "rate_limited"
    /\ history' = Append(history, Resp(429, h, "unread"))
    /\ LET retry_after == get_retry_after(h, backoff_factor, attempt)
       IN  IF AttemptsRemain(attempt, max_retries)
           THEN SleepAndContinue(Seconds(retry_after), last_exception)
           ELSE Raise(RateLimited(retry_after))
    /\ UNCHANGED <<config, last_exception>>
    /\ UNCHANGED <<credVars, regVars, probeVars, adapterVars,
                   pageVars, commentVars>>

\* a status of retry_statuses while attempts remain: back off and retry
RespondRetryable(s) ==
    /\ InLoop
    /\ StatusClass(s, retry_statuses, attempt, max_retries) = "retry"
    /\ history' = Append(history, Resp(s, None, "unread"))
    /\ SleepAndContinue(calculate_backoff(backoff_factor, attempt),
                        last_exception)
    /\ UNCHANGED <<config, last_exception>>
    /\ UNCHANGED <<credVars, regVars, probeVars, adapterVars,
                   pageVars, commentVars>>

\* any other status >= 400: ProviderError with the best-effort body
RespondError(s, b) ==
    /\ InLoop
    /\ StatusClass(s, retry_statuses, attempt, max_retries) = "error"
    /\ history' = Append(history, Resp(s, None, b))
    /\ Raise(RequestFailed(s, b))
    /\ UNCHANGED <<config, last_exception>>
    /\ UNCHANGED <<credVars, regVars, probeVars, adapterVars,
                   pageVars, commentVars>>

\* _request returns the response; the wrapper parses it
RespondSuccess(s, b) ==
    /\ InLoop
    /\ StatusClass(s, retry_statuses, attempt, max_retries) = "success"
    /\ history' = Append(history, Resp(s, None, b))
    /\ pc' = "done"
    /\ returned' = Resp(s, None, b)
    /\ raised' = WrapperOutcome(method, s, b).raised
    /\ result' = WrapperOutcome(method, s, b).result
    /\ UNCHANGED <<config, attempt, sleeps, last_exception>>
    /\ UNCHANGED <<credVars, regVars, probeVars, adapterVars,
                   pageVars, commentVars>>

\* requests.exceptions.Timeout
TransportTimeout ==
    /\ InLoop
    /\ history' = Append(history, TimeoutOutcome)
    /\ last_exception' = "Timeout"
    /\ IF AttemptsRemain(attempt, max_retries)
       THEN SleepAndContinue(calculate_backoff(backoff_factor, attempt),
                             "Timeout")
       ELSE /\ EndIteration("Timeout")
            /\ UNCHANGED <<sleeps, returned, result>>
    /\ UNCHANGED config
    /\ UNCHANGED <<credVars, regVars, probeVars, adapterVars,
                   pageVars, commentVars>>

\* requests.exceptions.ConnectionError
TransportConnectionError ==
    /\ InLoop
    /\ history' = Append(history, ConnectionErrorOutcome)
    /\ last_exception' = "ConnectionError"
    /\ IF AttemptsRemain(attempt, max_retries)
       THEN SleepAndContinue(calculate_backoff(backoff_factor, attempt),
                             "ConnectionError")
       ELSE /\ EndIteration("ConnectionError")
            /\ UNCHANGED <<sleeps, returned, result>>
    /\ UNCHANGED config
    /\ UNCHANGED <<credVars, regVars, probeVars, adapterVars,
                   pageVars, commentVars>>

\* ------------------------------------------------- the credential resolver
\* the result fields, in the order get_credentials tests them
Fields == <<"base_url", "email", "api_token">>

FieldSet == {"base_url", "email", "api_token"}

\* KEYRING_BASE_URL, KEYRING_EMAIL, KEYRING_TOKEN: the account of each field
KeyringAccount ==
    [base_url |-> "base_url", email |-> "user_email", api_token |-> "api_token"]

\* the accounts, in the order delete_credentials visits them
Accounts == <<"base_url", "user_email", "api_token">>

AccountSet == {"base_url", "user_email", "api_token"}

\* a keyring of the service with no entry
EmptyKeyring == [a \in AccountSet |-> None]

\* a keyring entry whose read raises keyring.errors.KeyringError
KeyringFailure == <<"KeyringError">>

\* values a source may hold for a field: a value that names the field and
\* the source, with a trailing "/" on some base URLs
EnvironValues ==
    [base_url : {None, <<>>, <<"u", "e", "/">>},
     email : {None, <<>>, <<"m", "e">>},
     api_token : {None, <<"t", "e">>}]

KeyringValues ==
    [base_url : {None, <<>>, <<"u", "k">>, KeyringFailure},
     user_email : {None, <<>>, <<"m", "k">>, KeyringFailure},
     api_token : {None, <<"t", "k">>, KeyringFailure}]

DotenvValues ==
    [base_url : {None, <<>>, <<"u", "d", "/">>},
     email : {None, <<>>, <<"m", "d">>},
     api_token : {None, <<"t", "d">>}]

ExplicitValues ==
    [base_url : {None, <<>>, <<"u", "x">>, <<"/">>},
     email : {None, <<>>, <<"m", "x">>},
     api_token : {None, <<"t", "x">>}]

\* str.rstrip(c)
RECURSIVE rstrip(_, _)
rstrip(s, c) ==
    IF s # <<>> /\ s[Len(s)] = c
    THEN rstrip(SubSeq(s, 1, Len(s) - 1), c)
    ELSE s

\* a read that hands on what the keyring raised
get_from_keyring_unguarded(kr, a) == kr[a]

\* _get_from_keyring: the entry, or None when the keyring raises
get_from_keyring(kr, a) == IF kr[a] = KeyringFailure THEN None ELSE kr[a]

\* step 2: os.environ.get for the fields still unresolved
FromEnviron(r, env) ==
    [f \in FieldSet |-> IF ~Truthy(r[f]) THEN env[f] ELSE r[f]]

\* step 3: the keyring for the fields still unresolved
FromKeyring(r, kr) ==
    [f \in FieldSet |->
        IF ~Truthy(r[f]) THEN get_from_keyring(kr, KeyringAccount[f])
        ELSE r[f]]

\* step 4: the .env file, read only when some field is still unresolved
FromDotenv(r, de) ==
    IF ~(\A f \in FieldSet : Truthy(r[f]))
    THEN [f \in FieldSet |-> IF ~Truthy(r[f]) THEN de[f] ELSE r[f]]
    ELSE r

\* a resolution that asks the keyring before the environment
ResolveKeyringFirst(x, env, kr, de) ==
    FromDotenv(FromEnviron(FromKeyring(x, kr), env), de)

\* steps 1 to 4 of get_credentials
Resolve(x, env, kr, de) ==
    FromDotenv(FromKeyring(FromEnviron(x, env), kr), de)

\* a validation that forgets the api_token
MissingWithoutToken(r) ==
    SelectSeq(<<"base_url", "email">>, LAMBDA f : ~Truthy(r[f]))

\* the names of the fields still unresolved, in the order they are tested
Missing(r) == SelectSeq(Fields, LAMBDA f : ~Truthy(r[f]))

\* get_credentials(base_url, email, api_token)
GetCredentials(x) ==
    /\ cred_pc = "idle"
    /\ explicit' = x
    /\ resolved' = Resolve(x, environ, keyring_store, dotenv)
    /\ IF Missing(resolved') # <<>>
       THEN /\ cred_pc' = "raised"
            /\ cred_error' = Missing(resolved')
            /\ creds' = creds
       ELSE /\ cred_pc' = "returned"
            /\ cred_error' = cred_error
            /\ creds' = [base_url |-> rstrip(resolved'.base_url, "/"),
                         email |-> resolved'.email,
                         api_token |-> resolved'.api_token]
    /\ UNCHANGED <<environ, keyring_store, dotenv, saved, delete_log,
                   delete_raised>>
    /\ UNCHANGED <<reqVars, regVars, probeVars, adapterVars,
                   pageVars, commentVars>>

\* no field holds a value
NoCredentials == [f \in {"base_url", "email", "api_token"} |-> None]

\* a save that stores the email and the token under each other's account
SavedStoreSwapped(kr, t) ==
    [kr EXCEPT !["base_url"] = t.base_url,
               !["user_email"] = t.api_token,
               !["api_token"] = t.email]

\* the three keyring.set_password calls of save_credentials
SavedStore(kr, t) ==
    [kr EXCEPT !["base_url"] = t.base_url,
               !["user_email"] = t.email,
               !["api_token"] = t.api_token]

\* save_credentials(base_url, email, api_token)
SaveCredentials(t) ==
    /\ cred_pc = "idle"
    /\ keyring_store' = SavedStore(keyring_store, t)
    /\ saved' = t
    /\ delete_log' = <<>>
    /\ delete_raised' = "None"
    /\ UNCHANGED <<environ, dotenv, explicit, resolved, creds, cred_error,
                   cred_pc>>
    /\ UNCHANGED <<reqVars, regVars, probeVars, adapterVars,
                   pageVars, commentVars>>

\* keyring.delete_password raises PasswordDeleteError for an entry that
\* does not exist
DeleteFails(kr, a) == kr[a] = None

\* a loop that lets the first PasswordDeleteError end the call
RECURSIVE DeleteAllAborting(_, _, _)
DeleteAllAborting(kr, accounts, log) ==
    IF accounts = <<>>
    THEN [store |-> kr, log |-> log, raised |-> "None"]
    ELSE IF DeleteFails(kr, Head(accounts))
    THEN [store |-> kr,
          log |-> Append(log, [account |-> Head(accounts),
                               outcome |-> "PasswordDeleteError"]),
          raised |-> "PasswordDeleteError"]
    ELSE DeleteAllAborting([kr EXCEPT ![Head(accounts)] = None],
                           Tail(accounts),
                           Append(log, [account |-> Head(accounts),
                                        outcome |-> "deleted"]))

\* the loop of delete_credentials over the accounts still to visit:
\* PasswordDeleteError is caught and the loop goes on
RECURSIVE DeleteAll(_, _, _)
DeleteAll(kr, accounts, log) ==
    IF accounts = <<>>
    THEN [store |-> kr, log |-> log, raised |-> "None"]
    ELSE IF DeleteFails(kr, Head(accounts))
    THEN DeleteAll(kr, Tail(accounts),
                   Append(log, [account |-> Head(accounts),
                                outcome |-> "PasswordDeleteError"]))
    ELSE DeleteAll([kr EXCEPT ![Head(accounts)] = None], Tail(accounts),
                   Append(log, [account |-> Head(accounts),
                                outcome |-> "deleted"]))

\* delete_credentials()
DeleteCredentials ==
    /\ cred_pc = "idle"
    /\ keyring_store' = DeleteAll(keyring_store, Accounts, <<>>).store
    /\ delete_log' = DeleteAll(keyring_store, Accounts, <<>>).log
    /\ delete_raised' = DeleteAll(keyring_store, Accounts, <<>>).raised
    /\ saved' = NoCredentials
    /\ UNCHANGED <<environ, dotenv, explicit, resolved, creds, cred_error,
                   cred_pc>>
    /\ UNCHANGED <<reqVars, regVars, probeVars, adapterVars,
                   pageVars, commentVars>>

\* ------------------------------------------------------------ the registry
\* the provider names the adapter modules register, and one more
atlassian_jira ==
    <<"a", "t", "l", "a", "s", "s", "i", "a", "n", "_", "j", "i", "r", "a">>

atlassian_confluence ==
    <<"a", "t", "l", "a", "s", "s", "i", "a", "n", "_", "c", "o", "n", "f", "l", "u", "e", "n", "c", "e">>

atlassian_jsm ==
    <<"a", "t", "l", "a", "s", "s", "i", "a", "n", "_", "j", "s", "m">>

custom ==
    <<"c", "u", "s", "t", "o", "m">>

\* the interface classes of core/interfaces.py
Interfaces == {"IssueTracker", "WikiProvider", "IncidentManager"}

\* the interface_type strings of list_adapters and _get_default_provider
InterfaceTypes == {"issue_tracker", "wiki", "incidents"}

InterfaceTypeName ==
    [issue_tracker |-> <<"i", "s", "s", "u", "e", "_", "t", "r", "a", "c", "k", "e", "r">>,
     wiki |-> <<"w", "i", "k", "i">>,
     incidents |-> <<"i", "n", "c", "i", "d", "e", "n", "t", "s">>]

\* the registry each interface class is stored in
InterfaceRegistry ==
    [IssueTracker |-> "issue_tracker",
     WikiProvider |-> "wiki",
     IncidentManager |-> "incidents"]

\* the three module-level dicts, empty
EmptyRegistry == [t \in InterfaceTypes |-> <<>>]

\* str.upper() on the ASCII letters
UpperOf ==
    [a |-> "A", b |-> "B", c |-> "C", d |-> "D", e |-> "E", f |-> "F",
     g |-> "G", h |-> "H", i |-> "I", j |-> "J", k |-> "K", l |-> "L",
     m |-> "M", n |-> "N", o |-> "O", p |-> "P", q |-> "Q", r |-> "R",
     s |-> "S", t |-> "T", u |-> "U", v |-> "V", w |-> "W", x |-> "X",
     y |-> "Y", z |-> "Z"]

\* str.upper()
upper(s) ==
    [i \in 1..Len(s) |-> IF s[i] \in DOMAIN UpperOf THEN UpperOf[s[i]]
                                                    ELSE s[i]]

\* f"ITSM_{interface_type.upper()}_PROVIDER"
env_var(interface_type) ==
    <<"I", "T", "S", "M", "_">> \o upper(InterfaceTypeName[interface_type])
        \o <<"_", "P", "R", "O", "V", "I", "D", "E", "R">>

\* os.environ.get(name)
EnvironGet(env, name) == IF name \in DOMAIN env THEN env[name] ELSE None

\* a Python dict is a sequence of entries in insertion order
\* list(d.keys())
Keys(entries) == [i \in 1..Len(entries) |-> entries[i].name]

\* name in d
Contains(entries, name) == \E i \in 1..Len(entries) : entries[i].name = name

\* d[name]
GetItem(entries, name) ==
    entries[CHOOSE i \in 1..Len(entries) : entries[i].name = name].cls

\* an assignment that leaves the class of a name already present
SetItemKeepFirst(entries, name, cls) ==
    IF Contains(entries, name)
    THEN entries
    ELSE Append(entries, [name |-> name, cls |-> cls])

\* d[name] = cls: a name already present keeps its position
SetItem(entries, name, cls) ==
    IF Contains(entries, name)
    THEN [i \in 1..Len(entries) |->
            IF entries[i].name = name THEN [name |-> name, cls |-> cls]
                                      ELSE entries[i]]
    ELSE Append(entries, [name |-> name, cls |-> cls])

\* register_adapter(name, interface)(cls): the decorator
register_adapter(reg, name, interface, cls) ==
    IF interface \in DOMAIN InterfaceRegistry
    THEN [registry |-> [reg EXCEPT ![InterfaceRegistry[interface]] =
                                      SetItem(@, name, cls)],
          raised |-> "None"]
    ELSE [registry |-> reg, raised |-> "ValueError"]

\* the decorated classes of each module of the atlassian package
ModuleDecorators ==
    [base |-> <<>>,
     credentials |-> <<>>,
     jira |-> <<[name |-> atlassian_jira, interface |-> "IssueTracker",
                 cls |-> "JiraAdapter"]>>,
     confluence |-> <<[name |-> atlassian_confluence,
                       interface |-> "WikiProvider",
                       cls |-> "ConfluenceAdapter"]>>,
     jsm |-> <<[name |-> atlassian_jsm, interface |-> "IncidentManager",
                cls |-> "JSMAdapter"]>>]

\* the modules the __init__ of each installed package imports, in order
PackageImports ==
    [atlassian |-> <<"base", "credentials">>,
     servicenow |-> <<>>]

\* the packages _import_adapters imports, in order
AdapterPackages == <<"atlassian", "servicenow", "pagerduty">>

\* the modules that hold an adapter class
AdapterModules == {"jira", "confluence", "jsm"}

\* the modules of the atlassian package
PackageModules == {"base", "credentials", "jira", "confluence", "jsm"}

\* no module body raises
NoFaults == [m \in PackageModules |-> "None"]

\* the interpreter state an import works on: the registries, sys.modules,
\* the registrations made, the exception in flight and the packages
\* _import_adapters has tried with the error each import ended in
ImportState(reg, modules, log) ==
    [registry |-> reg, sys_modules |-> modules, log |-> log,
     raised |-> "None", tried |-> <<>>]

\* the decorators of a module body, applied in order
RECURSIVE Decorate(_, _)
Decorate(st, decorators) ==
    IF decorators = <<>>
    THEN st
    ELSE LET d == Head(decorators)
             out == register_adapter(st.registry, d.name, d.interface, d.cls)
         IN  Decorate([st EXCEPT !.registry = out.registry,
                                 !.log = Append(@, d)],
                      Tail(decorators))

\* import of one module: its body runs the first time only, and a body
\* that raises leaves no module behind
ExecuteModule(st, m) ==
    IF m \in st.sys_modules
    THEN st
    ELSE IF import_faults[m] # "None"
    THEN [st EXCEPT !.raised = import_faults[m]]
    ELSE Decorate([st EXCEPT !.sys_modules = @ \cup {m}],
                  ModuleDecorators[m])

RECURSIVE ExecuteModules(_, _)
ExecuteModules(st, modules) ==
    IF modules = <<>> \/ st.raised # "None"
    THEN st
    ELSE ExecuteModules(ExecuteModule(st, Head(modules)), Tail(modules))

\* import itsm_tools.<pkg>: a package that is not installed raises
\* ModuleNotFoundError, an installed one runs the imports of its __init__
ImportPackage(st, pkg) ==
    IF pkg \in DOMAIN PackageImports
    THEN ExecuteModules(st, PackageImports[pkg])
    ELSE [st EXCEPT !.raised = "ModuleNotFoundError"]

\* the exceptions `except ImportError` catches
ImportErrors == {"ImportError", "ModuleNotFoundError"}

\* try: import itsm_tools.<pkg>; except ImportError: pass
TryImport(st, pkg) ==
    LET out == ImportPackage(st, pkg)
        logged == [out EXCEPT !.tried = Append(@, [package |-> pkg,
                                                   error |-> out.raised])]
    IN  IF out.raised \in ImportErrors
        THEN [logged EXCEPT !.raised = "None"]
        ELSE logged

RECURSIVE ImportPackages(_, _)
ImportPackages(st, pkgs) ==
    IF pkgs = <<>> \/ st.raised # "None"
    THEN st
    ELSE ImportPackages(TryImport(st, Head(pkgs)), Tail(pkgs))

\* _import_adapters()
import_adapters(st) == ImportPackages(st, AdapterPackages)

\* a default that is the provider registered last
get_default_provider_last(interface_type, env, reg) ==
    LET env_value == EnvironGet(env, env_var(interface_type))
    IN  IF Truthy(env_value)
        THEN [provider |-> env_value, raised |-> "None"]
        ELSE IF reg[interface_type] # <<>>
        THEN [provider |-> Keys(reg[interface_type])[Len(reg[interface_type])],
              raised |-> "None"]
        ELSE [provider |-> None, raised |-> "ITSMError"]

\* _get_default_provider(interface_type)
get_default_provider(interface_type, env, reg) ==
    LET env_value == EnvironGet(env, env_var(interface_type))
    IN  IF Truthy(env_value)
        THEN [provider |-> env_value, raised |-> "None"]
        ELSE IF reg[interface_type] # <<>>
        THEN [provider |-> Keys(reg[interface_type])[1], raised |-> "None"]
        ELSE [provider |-> None, raised |-> "ITSMError"]

\* config or {}
ConfigOrEmpty(cfg) == IF Truthy(cfg) THEN cfg ELSE <<>>

NoInstance == [id |-> 0, cls |-> "None", session |-> 0, resolution |-> 0]

\* a constructor that hands out the instance of the class made before
NewInstanceCached(cls, made, n) ==
    IF \E i \in 1..Len(made) : made[i].cls = cls
    THEN made[CHOOSE i \in 1..Len(made) : made[i].cls = cls]
    ELSE [id |-> n + 1, cls |-> cls, session |-> n + 1, resolution |-> n + 1]

\* AtlassianClient.__init__ in the n+1st constructor call: a new object,
\* its own get_credentials call and its own requests.Session()
NewInstance(cls, made, n) ==
    [id |-> n + 1, cls |-> cls, session |-> n + 1, resolution |-> n + 1]

NoListing == [t \in InterfaceTypes |-> <<>>]

NoCall ==
    [op |-> "None", interface_type |-> "None", provider |-> None,
     config |-> None, constructions |-> 0]

Call(op, interface_type, provider, cfg) ==
    [op |-> op, interface_type |-> interface_type, provider |-> provider,
     config |-> cfg, constructions |-> constructions]

NoCtorArgs == [cls |-> "None", config |-> None]

RegResult(kind, type, provider, available, instance, listing) ==
    [kind |-> kind, type |-> type, provider |-> provider,
     available |-> available, instance |-> instance, listing |-> listing]

NoRegResult == RegResult("None", "None", None, <<>>, NoInstance, NoListing)

\* the decorator applied to a class outside the adapter modules
RegisterAdapter(name, interface, cls) ==
    /\ Len(reg_log) < MaxRegistrations
    /\ LET out == register_adapter(registry, name, interface, cls)
       IN  /\ registry' = out.registry
           /\ reg_log' = IF out.raised = "None"
                         THEN Append(reg_log, [name |-> name,
                                               interface |-> interface,
                                               cls |-> cls])
                         ELSE reg_log
           /\ reg_result' = RegResult(IF out.raised = "None" THEN "None"
                                                            ELSE "error",
                                      out.raised, None, <<>>, NoInstance,
                                      NoListing)
    /\ last_call' = NoCall
    /\ UNCHANGED <<sys_modules, provider_env, instances, constructions,
                   ctor_args, import_faults, import_log>>
    /\ UNCHANGED <<reqVars, credVars, probeVars, adapterVars,
                   pageVars, commentVars>>

\* import itsm_tools.atlassian.<m>: the package, then the module
ImportModule(m) ==
    /\ m \notin sys_modules
    /\ Len(reg_log) < MaxRegistrations
    /\ LET pkg == ImportPackage(ImportState(registry, sys_modules, reg_log),
                                "atlassian")
           st == IF pkg.raised = "None" THEN ExecuteModule(pkg, m) ELSE pkg
       IN  /\ registry' = st.registry
           /\ sys_modules' = st.sys_modules
           /\ reg_log' = st.log
           /\ reg_result' = IF st.raised = "None"
                            THEN NoRegResult
                            ELSE RegResult("error", st.raised, None, <<>>,
                                           NoInstance, NoListing)
    /\ last_call' = NoCall
    /\ UNCHANGED <<provider_env, instances, constructions, ctor_args,
                   import_faults, import_log>>
    /\ UNCHANGED <<reqVars, credVars, probeVars, adapterVars,
                   pageVars, commentVars>>

\* the body the three getters share; ok: get_credentials returns in the
\* constructor, else its ValueError leaves the getter
GetAdapter(interface_type, provider, cfg, maxC) ==
    /\ constructions < maxC
    /\ LET st == import_adapters(ImportState(registry, sys_modules, reg_log))
           dflt == IF provider = None
                   THEN get_default_provider(interface_type, provider_env,
                                             st.registry)
                   ELSE [provider |-> provider, raised |-> "None"]
           entries == st.registry[interface_type]
       IN  /\ registry' = st.registry
           /\ sys_modules' = st.sys_modules
           /\ reg_log' = st.log
           /\ import_log' = st.tried
           /\ last_call' = Call("get", interface_type, provider, cfg)
           /\ IF st.raised # "None"
              THEN /\ reg_result' = RegResult("error", st.raised, None, <<>>,
                                              NoInstance, NoListing)
                   /\ UNCHANGED <<instances, constructions, ctor_args>>
              ELSE IF dflt.raised # "None"
              THEN /\ reg_result' = RegResult("error", "ITSMError", None,
                                              <<>>, NoInstance, NoListing)
                   /\ UNCHANGED <<instances, constructions, ctor_args>>
              ELSE IF ~Contains(entries, dflt.provider)
              THEN /\ reg_result' = RegResult("error", "ITSMError",
                                              dflt.provider, Keys(entries),
                                              NoInstance, NoListing)
                   /\ UNCHANGED <<instances, constructions, ctor_args>>
              ELSE LET adapter_class == GetItem(entries, dflt.provider)
                       made == NewInstance(adapter_class, instances,
                                           constructions)
                   IN  /\ constructions' = constructions + 1
                       /\ ctor_args' = [cls |-> adapter_class,
                                        config |-> ConfigOrEmpty(cfg)]
                       /\ \E ok \in BOOLEAN :
                            IF ok
                            THEN /\ instances' = Append(instances, made)
                                 /\ reg_result' =
                                      RegResult("instance", "None",
                                                dflt.provider, <<>>, made,
                                                NoListing)
                            ELSE /\ instances' = instances
                                 /\ reg_result' =
                                      RegResult("error", "ValueError",
                                                dflt.provider, <<>>,
                                                NoInstance, NoListing)
    /\ UNCHANGED <<provider_env, import_faults>>
    /\ UNCHANGED <<reqVars, credVars, probeVars, adapterVars,
                   pageVars, commentVars>>

get_issue_tracker(provider, cfg, maxC) ==
    GetAdapter("issue_tracker", provider, cfg, maxC)

get_wiki_provider(provider, cfg, maxC) ==
    GetAdapter("wiki", provider, cfg, maxC)

get_incident_manager(provider, cfg, maxC) ==
    GetAdapter("incidents", provider, cfg, maxC)

\* list_adapters()
ListAdapters ==
    /\ LET st == import_adapters(ImportState(registry, sys_modules, reg_log))
       IN  /\ registry' = st.registry
           /\ sys_modules' = st.sys_modules
           /\ reg_log' = st.log
           /\ import_log' = st.tried
           /\ reg_result' =
                IF st.raised # "None"
                THEN RegResult("error", st.raised, None, <<>>, NoInstance,
                               NoListing)
                ELSE RegResult("listing", "None", None, <<>>, NoInstance,
                               [t \in InterfaceTypes |->
                                  Keys(st.registry[t])])
    /\ last_call' = Call("list", "None", None, None)
    /\ UNCHANGED <<provider_env, instances, constructions, ctor_args,
                   import_faults>>
    /\ UNCHANGED <<reqVars, credVars, probeVars, adapterVars,
                   pageVars, commentVars>>

\* --------------------------------------------------------- test_connection
\* the paths of the primary and the secondary probe
ProbePaths == <<"/rest/api/3/serverInfo", "/rest/api/3/myself">>

\* a first handler that takes NotFoundError for success at once
AfterPrimaryNoSecondary(exc) ==
    IF exc = NoException THEN "return_true"
    ELSE IF exc.type = "NotFoundError" THEN "return_true"
    ELSE "propagate"

\* test_connection after self._get("/rest/api/3/serverInfo") ended with
\* exc, NoException when it returned
AfterPrimary(exc) ==
    IF exc = NoException THEN "return_true"
    ELSE IF exc.type = "NotFoundError" THEN "secondary"
    ELSE "propagate"

\* a second handler that takes every exception for success
AfterSecondaryLenient(exc) == "return_true"

\* test_connection after self._get("/rest/api/3/myself") ended with exc
AfterSecondary(exc) ==
    IF exc = NoException THEN "return_true"
    ELSE IF exc.type = "NotFoundError" THEN "return_true"
    ELSE "propagate"

\* self._get(path) begins on the client as configured
BeginProbe ==
    /\ method' = "GET"
    /\ retry_statuses' = DEFAULT_RETRY_STATUSES
    /\ attempt' = 0
    /\ pc' = "loop"
    /\ last_exception' = "None"
    /\ history' = <<>>
    /\ sleeps' = <<>>
    /\ returned' = NoResponse
    /\ raised' = NoException
    /\ result' = NoResult

\* test_connection() is called on a client and issues the primary probe
TestConnection(maxN) ==
    /\ tc_pc = "idle"
    /\ pc = "idle"
    /\ max_retries' \in 0..maxN
    /\ backoff_factor' \in BackoffFactors
    /\ BeginProbe
    /\ tc_pc' = "primary"
    /\ UNCHANGED <<tc_returned, tc_raised, probes>>
    /\ UNCHANGED <<credVars, regVars, adapterVars,
                   pageVars, commentVars>>

\* the primary probe is over
PrimaryProbeEnds ==
    /\ tc_pc = "primary"
    /\ pc = "done"
    /\ probes' = Append(probes, [path |-> ProbePaths[1], raised |-> raised])
    /\ IF AfterPrimary(raised) = "return_true"
       THEN /\ tc_pc' = "done"
            /\ tc_returned' = "True"
            /\ UNCHANGED <<tc_raised, reqVars>>
       ELSE IF AfterPrimary(raised) = "secondary"
       THEN /\ tc_pc' = "secondary"
            /\ BeginProbe
            /\ UNCHANGED <<max_retries, backoff_factor, tc_returned,
                           tc_raised>>
       ELSE /\ tc_pc' = "done"
            /\ tc_raised' = raised
            /\ UNCHANGED <<tc_returned, reqVars>>
    /\ UNCHANGED <<credVars, regVars, adapterVars,
                   pageVars, commentVars>>

\* the secondary probe is over
SecondaryProbeEnds ==
    /\ tc_pc = "secondary"
    /\ pc = "done"
    /\ probes' = Append(probes, [path |-> ProbePaths[2], raised |-> raised])
    /\ tc_pc' = "done"
    /\ IF AfterSecondary(raised) = "return_true"
       THEN /\ tc_returned' = "True"
            /\ UNCHANGED tc_raised
       ELSE /\ tc_raised' = raised
            /\ UNCHANGED tc_returned
    /\ UNCHANGED <<reqVars, credVars, regVars, adapterVars,
                   pageVars, commentVars>>

\* -------------------------------------------------- the adapter lifecycle
AdapterClasses == {"JiraAdapter", "ConfluenceAdapter", "JSMAdapter"}

\* the bases of each adapter class, in the order of the class statement
Bases ==
    [JiraAdapter |-> <<"AtlassianClient", "IssueTracker">>,
     ConfluenceAdapter |-> <<"AtlassianClient", "WikiProvider">>,
     JSMAdapter |-> <<"AtlassianClient", "IncidentManager">>]

\* the method resolution order: the class, then its bases left to right
MRO(cls) == <<cls>> \o Bases[cls]

\* the classes whose body defines the method
DefinedIn(attr) ==
    IF attr \in {"__enter__", "__exit__"}
    THEN {"AtlassianClient", "IssueTracker", "WikiProvider",
          "IncidentManager"}
    ELSE IF attr = "close" THEN {"AtlassianClient"}
    ELSE AdapterClasses

\* the class whose definition of attr an instance of cls uses
ResolveAttr(cls, attr) ==
    LET mro == MRO(cls)
        first == CHOOSE i \in 1..Len(mro) :
                    /\ mro[i] \in DefinedIn(attr)
                    /\ \A j \in 1..(i - 1) : mro[j] \notin DefinedIn(attr)
    IN  mro[first]

\* the fields of an adapter the lifecycle reads and writes, with the
\* methods called on it so far
Self(isConnected, sessionOpen, called, exc) ==
    [connected |-> isConnected, session_open |-> sessionOpen,
     calls |-> called, raised |-> exc]

\* AtlassianClient.close
close(self) ==
    [self EXCEPT !.calls = Append(@, "close"), !.session_open = FALSE]

\* connect of the three adapters; ok: the probe of the connection returns,
\* else its exception leaves connect
connect(self, ok) ==
    LET called == [self EXCEPT !.calls = Append(@, "connect")]
    IN  IF self.connected
        THEN called
        ELSE IF ok
        THEN [called EXCEPT !.connected = TRUE]
        ELSE [called EXCEPT !.raised = "raised"]

\* disconnect of the three adapters
disconnect(self) ==
    [close([self EXCEPT !.calls = Append(@, "disconnect")])
        EXCEPT !.connected = FALSE]

\* instance.__enter__() as the class of the instance resolves it
enter(cls, self, ok) ==
    LET called == [self EXCEPT !.calls = Append(@, "__enter__")]
    IN  IF ResolveAttr(cls, "__enter__") = "AtlassianClient"
        THEN called
        ELSE connect(called, ok)

\* instance.__exit__(...) as the class of the instance resolves it
exit(cls, self) ==
    LET called == [self EXCEPT !.calls = Append(@, "__exit__")]
    IN  IF ResolveAttr(cls, "__exit__") = "AtlassianClient"
        THEN close(called)
        ELSE disconnect(called)

CurrentSelf == Self(connected, session_open, calls, "None")

Becomes(self) ==
    /\ connected' = self.connected
    /\ session_open' = self.session_open
    /\ calls' = self.calls

\* an adapter is constructed: __init__ of the adapter class
ConstructAdapter(cls) ==
    /\ adapter = "None"
    /\ adapter' = cls
    /\ connected' = FALSE
    /\ session_open' = TRUE
    /\ calls' = <<>>
    /\ block' = "outside"
    /\ UNCHANGED <<reqVars, credVars, regVars, probeVars,
                   pageVars, commentVars>>

\* adapter.connect()
Connect(ok) ==
    /\ adapter # "None"
    /\ Len(calls) < MaxCalls
    /\ Becomes(connect(CurrentSelf, ok))
    /\ UNCHANGED <<adapter, block>>
    /\ UNCHANGED <<reqVars, credVars, regVars, probeVars,
                   pageVars, commentVars>>

\* adapter.disconnect()
Disconnect ==
    /\ adapter # "None"
    /\ Len(calls) < MaxCalls
    /\ Becomes(disconnect(CurrentSelf))
    /\ UNCHANGED <<adapter, block>>
    /\ UNCHANGED <<reqVars, credVars, regVars, probeVars,
                   pageVars, commentVars>>

\* with adapter: the block is entered unless __enter__ raises
EnterBlock(ok) ==
    /\ adapter # "None"
    /\ block = "outside"
    /\ Len(calls) < MaxCalls
    /\ LET self == enter(adapter, CurrentSelf, ok)
       IN  /\ Becomes(self)
           /\ block' = IF self.raised = "None" THEN "inside" ELSE "outside"
    /\ UNCHANGED adapter
    /\ UNCHANGED <<reqVars, credVars, regVars, probeVars,
                   pageVars, commentVars>>

\* the block ends, normally or by an exception, and __exit__ runs
ExitBlock(how) ==
    /\ block = "inside"
    /\ Becomes(exit(adapter, CurrentSelf))
    /\ block' = how
    /\ UNCHANGED adapter
    /\ UNCHANGED <<reqVars, credVars, regVars, probeVars,
                   pageVars, commentVars>>

\* ------------------------------------------------ the Confluence pages
\* a page of the server: its storage body (None when the response has no
\* body) and its version number
Page(content, version) ==
    [exists |-> TRUE, content |-> content, version |-> version]

NoPage == [exists |-> FALSE, content |-> None, version |-> 0]

\* current.content or ""
ContentOrEmpty(content) == IF content = None THEN <<>> ELSE content

\* the server takes a write only when its version number is the current
\* version plus one
ServerAccepts(stored, number) == number = stored.version + 1

\* the version number update_page sends: current.version + 1
PutVersion(current_version) == current_version + 1

\* leaves append_to_page with exc
AppendRaises(exc) ==
    /\ ap_pc' = "done"
    /\ ap_raised' = exc
    /\ UNCHANGED <<page, ap_content, ap_new_content, ap_version, put_outcome,
                   others, ap_result>>

PageNotFound == [type |-> "NotFoundError", message |-> "Page not found"]

VersionConflict ==
    [type |-> "ProviderError", message |-> "Request failed",
     status_code |-> 409]

\* append_to_page(page_id, content) is called
AppendToPage(content) ==
    /\ ap_pc = "idle"
    /\ ap_pc' = "get_current"
    /\ ap_content' = content
    /\ UNCHANGED <<page, ap_new_content, ap_version, put_outcome, others,
                   ap_raised, ap_result>>
    /\ UNCHANGED <<reqVars, credVars, regVars, probeVars, adapterVars,
                   commentVars>>

\* append_to_page reads the page and computes the new content
AppendGetPage ==
    /\ ap_pc = "get_current"
    /\ IF ~page.exists
       THEN AppendRaises(PageNotFound)
       ELSE /\ ap_new_content' = ContentOrEmpty(page.content) \o ap_content
            /\ ap_pc' = "update_get"
            /\ UNCHANGED <<page, ap_content, ap_version, put_outcome, others,
                           ap_raised, ap_result>>
    /\ UNCHANGED <<reqVars, credVars, regVars, probeVars, adapterVars,
                   commentVars>>

\* update_page reads the page again for its version
UpdateGetPage ==
    /\ ap_pc = "update_get"
    /\ IF ~page.exists
       THEN AppendRaises(PageNotFound)
       ELSE /\ ap_version' = page.version
            /\ ap_pc' = "put"
            /\ UNCHANGED <<page, ap_content, ap_new_content, put_outcome,
                           others, ap_raised, ap_result>>
    /\ UNCHANGED <<reqVars, credVars, regVars, probeVars, adapterVars,
                   commentVars>>

\* update_page sends the PUT with the new content and the next version
UpdatePut ==
    /\ ap_pc = "put"
    /\ IF ServerAccepts(page, PutVersion(ap_version))
       THEN /\ page' = Page(ap_new_content, PutVersion(ap_version))
            /\ put_outcome' = "accepted"
            /\ ap_pc' = "update_fetch"
            /\ UNCHANGED <<ap_content, ap_new_content, ap_version, others,
                           ap_raised, ap_result>>
       ELSE /\ put_outcome' = "rejected"
            /\ ap_pc' = "done"
            /\ ap_raised' = VersionConflict
            /\ UNCHANGED <<page, ap_content, ap_new_content, ap_version,
                           others, ap_result>>
    /\ UNCHANGED <<reqVars, credVars, regVars, probeVars, adapterVars,
                   commentVars>>

\* update_page fetches the updated page and returns it
UpdateFetch ==
    /\ ap_pc = "update_fetch"
    /\ ap_pc' = "done"
    /\ ap_result' = page
    /\ UNCHANGED <<page, ap_content, ap_new_content, ap_version, put_outcome,
                   others, ap_raised>>
    /\ UNCHANGED <<reqVars, credVars, regVars, probeVars, adapterVars,
                   commentVars>>

\* another client appends text to the page with a write the server takes
OtherClientWrites(text, maxW) ==
    /\ page.exists
    /\ Len(others) < maxW
    /\ page' = Page(ContentOrEmpty(page.content) \o text, page.version + 1)
    /\ others' = Append(others, [text |-> text, during |-> ap_pc])
    /\ UNCHANGED <<ap_pc, ap_content, ap_new_content, ap_version,
                   put_outcome, ap_raised, ap_result>>
    /\ UNCHANGED <<reqVars, credVars, regVars, probeVars, adapterVars,
                   commentVars>>

\* ------------------------------------------------------- the JSM comments
JSM_API == "/rest/servicedeskapi"

JIRA_API_V3 == "/rest/api/3"

\* line.strip() of a line of the body is empty
Blank(line) == line \in {"", " "}

\* _to_adf: one paragraph per line, empty for a blank line
to_adf(lines) ==
    [type |-> "doc", version |-> 1,
     content |-> [i \in 1..Len(lines) |->
                    IF Blank(lines[i])
                    THEN [type |-> "paragraph", content |-> <<>>]
                    ELSE [type |-> "paragraph",
                          content |-> <<[type |-> "text",
                                         text |-> lines[i]]>>]]]

\* the key of an incident given as an Incident object or as its key
incident_key(incident) == incident.key

NoArgs == [incident |-> "None", body |-> <<>>, internal |-> FALSE]

NoCommentResult == [status |-> "None", message |-> "None"]

\* POST {JIRA_API_V3}/issue/{key}/comment with the body as a document
FallbackRequest(key, body, internal) ==
    [api |-> JIRA_API_V3, path |-> "issue", key |-> key,
     fields |-> {"body"}, body |-> to_adf(body), public |-> "absent"]

\* POST {JSM_API}/request/{key}/comment with body and public
PrimaryRequest(key, body, internal) ==
    [api |-> JSM_API, path |-> "request", key |-> key,
     fields |-> {"body", "public"}, body |-> body,
     public |-> IF internal THEN "false" ELSE "true"]

\* how a _post of add_comment ends: the comment is created, or _post raises
PostOutcomes ==
    {"created", "ProviderError", "AuthenticationError", "NotFoundError",
     "RateLimitError", "ITSMConnectionError"}

CommentAdded(internal) ==
    [status |-> "SUCCESS",
     message |-> IF internal THEN "Internal comment added"
                 ELSE "Public comment added"]

\* add_comment(incident, body, internal) is called and sends its first POST
AddComment(incident, body, internal) ==
    /\ ac_pc = "idle"
    /\ ac_pc' = "primary"
    /\ ac_args' = [incident |-> incident.kind, body |-> body,
                   internal |-> internal]
    /\ ac_requests' = <<PrimaryRequest(incident_key(incident), body,
                                      internal)>>
    /\ UNCHANGED <<ac_created, ac_raised, ac_result>>
    /\ UNCHANGED <<reqVars, credVars, regVars, probeVars, adapterVars,
                   pageVars>>

\* the first POST ends: on ProviderError add_comment sends the fallback POST
PrimaryPostEnds(outcome) ==
    /\ ac_pc = "primary"
    /\ IF outcome = "created"
       THEN /\ ac_created' = 1
            /\ ac_result' = CommentAdded(ac_args.internal)
            /\ ac_pc' = "done"
            /\ UNCHANGED <<ac_requests, ac_raised>>
       ELSE IF outcome = "ProviderError"
       THEN /\ ac_requests' = Append(ac_requests,
                                     FallbackRequest(ac_requests[1].key,
                                                     ac_args.body,
                                                     ac_args.internal))
            /\ ac_pc' = "fallback"
            /\ UNCHANGED <<ac_created, ac_raised, ac_result>>
       ELSE /\ ac_raised' = [type |-> outcome]
            /\ ac_pc' = "done"
            /\ UNCHANGED <<ac_requests, ac_created, ac_result>>
    /\ UNCHANGED ac_args
    /\ UNCHANGED <<reqVars, credVars, regVars, probeVars, adapterVars,
                   pageVars>>

\* the fallback POST ends
FallbackPostEnds(outcome) ==
    /\ ac_pc = "fallback"
    /\ ac_pc' = "done"
    /\ IF outcome = "created"
       THEN /\ ac_created' = 2
            /\ ac_result' = CommentAdded(ac_args.internal)
            /\ UNCHANGED ac_raised
       ELSE /\ ac_raised' = [type |-> outcome]
            /\ UNCHANGED <<ac_created, ac_result>>
    /\ UNCHANGED <<ac_args, ac_requests>>
    /\ UNCHANGED <<reqVars, credVars, regVars, probeVars, adapterVars,
                   pageVars>>

\* ------------------------------------------------------ the specifications
\* the names of the three provider variables
ITSM_ISSUE_TRACKER_PROVIDER ==
    <<"I", "T", "S", "M", "_", "I", "S", "S", "U", "E", "_", "T", "R", "A", "C", "K", "E", "R", "_", "P", "R", "O", "V", "I", "D", "E", "R">>

ITSM_WIKI_PROVIDER ==
    <<"I", "T", "S", "M", "_", "W", "I", "K", "I", "_", "P", "R", "O", "V", "I", "D", "E", "R">>

ITSM_INCIDENTS_PROVIDER ==
    <<"I", "T", "S", "M", "_", "I", "N", "C", "I", "D", "E", "N", "T", "S", "_", "P", "R", "O", "V", "I", "D", "E", "R">>

\* os.environ with the three provider variables set to i, w and n
ProviderEnv(i, w, n) ==
    (ITSM_ISSUE_TRACKER_PROVIDER :> i) @@ (ITSM_WIKI_PROVIDER :> w)
        @@ (ITSM_INCIDENTS_PROVIDER :> n)

RegistryEmpty ==
    /\ registry = EmptyRegistry
    /\ sys_modules = {}
    /\ reg_log = <<>>
    /\ instances = <<>>
    /\ constructions = 0
    /\ ctor_args = NoCtorArgs
    /\ last_call = NoCall
    /\ reg_result = NoRegResult
    /\ import_log = <<>>

RegistryIdle ==
    /\ RegistryEmpty
    /\ import_faults = NoFaults
    /\ provider_env = ProviderEnv(None, None, None)

ProbeIdle ==
    /\ tc_pc = "idle"
    /\ tc_returned = "None"
    /\ tc_raised = NoException
    /\ probes = <<>>

AdapterIdle ==
    /\ adapter = "None"
    /\ connected = FALSE
    /\ session_open = FALSE
    /\ calls = <<>>
    /\ block = "outside"

AppendIdle ==
    /\ ap_pc = "idle"
    /\ ap_content = <<>>
    /\ ap_new_content = <<>>
    /\ ap_version = 0
    /\ put_outcome = "none"
    /\ others = <<>>
    /\ ap_raised = NoException
    /\ ap_result = NoPage

PageIdle ==
    /\ page = NoPage
    /\ AppendIdle

CommentIdle ==
    /\ ac_pc = "idle"
    /\ ac_args = NoArgs
    /\ ac_requests = <<>>
    /\ ac_created = 0
    /\ ac_raised = NoException
    /\ ac_result = NoCommentResult

CredIdle ==
    /\ environ = NoCredentials
    /\ keyring_store = EmptyKeyring
    /\ dotenv = NoCredentials
    /\ explicit = NoCredentials
    /\ resolved = NoCredentials
    /\ creds = NoCredentials
    /\ cred_error = <<>>
    /\ cred_pc = "idle"
    /\ saved = NoCredentials
    /\ delete_log = <<>>
    /\ delete_raised = "None"

RequestIdle ==
    /\ pc = "idle"
    /\ method = "REQUEST"
    /\ max_retries = 0
    /\ backoff_factor = <<2, 1>>
    /\ retry_statuses = DEFAULT_RETRY_STATUSES
    /\ attempt = 0
    /\ last_exception = "None"
    /\ history = <<>>
    /\ sleeps = <<>>
    /\ returned = NoResponse
    /\ raised = NoException
    /\ result = NoResult

Init ==
    /\ RequestIdle
    /\ CredIdle
    /\ RegistryIdle
    /\ ProbeIdle
    /\ AdapterIdle
    /\ PageIdle
    /\ CommentIdle

Next ==
    \/ BeginRequest(MaxRetries)
    \/ Respond401
    \/ Respond403
    \/ Respond404
    \/ \E h \in RetryAfterHeaders : Respond429(h)
    \/ \E s \in Statuses : RespondRetryable(s)
    \/ \E s \in Statuses, b \in Bodies : RespondError(s, b)
    \/ \E s \in Statuses, b \in Bodies : RespondSuccess(s, b)
    \/ TransportTimeout
    \/ TransportConnectionError

Spec == Init /\ [][Next]_vars

\* the server answers every attempt with a server error or a success, and
\* max_retries goes up to MaxRetriesDeep
NextServerError ==
    \/ BeginRequest(MaxRetriesDeep)
    \/ \E s \in ServerErrors : RespondRetryable(s)
    \/ \E s \in ServerErrors, b \in Bodies : RespondError(s, b)
    \/ \E s \in Statuses \ ServerErrors, b \in Bodies : RespondSuccess(s, b)

SpecServerError == Init /\ [][NextServerError]_vars

\* the credential resolver, called once on any contents of the sources
InitCredentials ==
    /\ RequestIdle
    /\ RegistryIdle
    /\ ProbeIdle
    /\ AdapterIdle
    /\ PageIdle
    /\ CommentIdle
    /\ environ \in EnvironValues
    /\ keyring_store \in KeyringValues
    /\ dotenv \in DotenvValues
    /\ explicit = NoCredentials
    /\ resolved = NoCredentials
    /\ creds = NoCredentials
    /\ cred_error = <<>>
    /\ cred_pc = "idle"
    /\ saved = NoCredentials
    /\ delete_log = <<>>
    /\ delete_raised = "None"

NextCredentials == \E x \in ExplicitValues : GetCredentials(x)

SpecCredentials == InitCredentials /\ [][NextCredentials]_vars

\* save_credentials, delete_credentials and get_credentials on the keyring
\* of one service, whose entries can all be read
KeyringInitial ==
    [base_url : {None, <<"u", "k">>},
     user_email : {None, <<>>, <<"m", "k">>},
     api_token : {None, <<"t", "k">>}]

EnvironInitial ==
    {NoCredentials,
     [base_url |-> <<"u", "e", "/">>, email |-> None,
      api_token |-> <<"t", "e">>]}

SaveValues ==
    [base_url : {<<>>, <<"u", "s">>, <<"u", "s", "/">>, <<"/">>},
     email : {<<>>, <<"m", "s">>},
     api_token : {<<>>, <<"t", "s">>}]

InitKeyring ==
    /\ RequestIdle
    /\ RegistryIdle
    /\ ProbeIdle
    /\ AdapterIdle
    /\ PageIdle
    /\ CommentIdle
    /\ environ \in EnvironInitial
    /\ keyring_store \in KeyringInitial
    /\ dotenv \in DotenvValues
    /\ explicit = NoCredentials
    /\ resolved = NoCredentials
    /\ creds = NoCredentials
    /\ cred_error = <<>>
    /\ cred_pc = "idle"
    /\ saved = NoCredentials
    /\ delete_log = <<>>
    /\ delete_raised = "None"

NextKeyring ==
    \/ \E t \in SaveValues : SaveCredentials(t)
    \/ DeleteCredentials
    \/ \E x \in ExplicitValues : GetCredentials(x)

SpecKeyring == InitKeyring /\ [][NextKeyring]_vars

\* the registry: registrations, imports of the adapter modules, the three
\* getters and list_adapters, under any setting of the provider variables
ProviderNames == {atlassian_jira, custom}

\* config: None and {"project": "ITI"}, a mapping being the sequence of its
\* keys and values
Configs == {None, <<"project", "ITI">>}

ProviderEnvironments ==
    {ProviderEnv(None, None, None),
     ProviderEnv(atlassian_jira, <<>>, custom)}

InitRegistry ==
    /\ RequestIdle
    /\ CredIdle
    /\ ProbeIdle
    /\ AdapterIdle
    /\ PageIdle
    /\ CommentIdle
    /\ RegistryEmpty
    /\ import_faults = NoFaults
    /\ provider_env \in ProviderEnvironments

NextRegistry ==
    \/ \E name \in ProviderNames, interface \in {"IssueTracker", "object"} :
          RegisterAdapter(name, interface, "CustomAdapter")
    \/ \E m \in AdapterModules : ImportModule(m)
    \/ \E p \in ProviderNames \cup {None}, cfg \in Configs :
          get_issue_tracker(p, cfg, MaxConstructions)
    \/ \E p \in ProviderNames \cup {None}, cfg \in Configs :
          get_wiki_provider(p, cfg, MaxConstructions)
    \/ \E p \in ProviderNames \cup {None}, cfg \in Configs :
          get_incident_manager(p, cfg, MaxConstructions)
    \/ ListAdapters

SpecRegistry == InitRegistry /\ [][NextRegistry]_vars

\* the getters called again and again on what the adapter modules register
NextGetters ==
    \/ \E m \in AdapterModules : ImportModule(m)
    \/ \E p \in ProviderNames \cup {None}, cfg \in Configs :
          get_issue_tracker(p, cfg, MaxConstructionsDeep)
    \/ \E p \in ProviderNames \cup {None}, cfg \in Configs :
          get_wiki_provider(p, cfg, MaxConstructionsDeep)
    \/ \E p \in ProviderNames \cup {None}, cfg \in Configs :
          get_incident_manager(p, cfg, MaxConstructionsDeep)
    \/ ListAdapters

SpecGetters == InitRegistry /\ [][NextGetters]_vars

\* the registry in an installation where the body of base.py may raise:
\* ImportError for a name it imports that does not exist, or another error
ImportFaults ==
    {[NoFaults EXCEPT !["base"] = e] : e \in {"None", "ImportError",
                                              "NameError"}}

InitImport ==
    /\ RequestIdle
    /\ CredIdle
    /\ ProbeIdle
    /\ AdapterIdle
    /\ PageIdle
    /\ CommentIdle
    /\ RegistryEmpty
    /\ import_faults \in ImportFaults
    /\ provider_env \in ProviderEnvironments

NextImport ==
    \/ \E m \in AdapterModules : ImportModule(m)
    \/ \E p \in ProviderNames \cup {None}, cfg \in Configs :
          get_issue_tracker(p, cfg, MaxConstructions)
    \/ \E p \in ProviderNames \cup {None}, cfg \in Configs :
          get_wiki_provider(p, cfg, MaxConstructions)
    \/ \E p \in ProviderNames \cup {None}, cfg \in Configs :
          get_incident_manager(p, cfg, MaxConstructions)
    \/ ListAdapters

SpecImport == InitImport /\ [][NextImport]_vars

\* test_connection on a client: the probes are calls of _get
NextTestConnection ==
    \/ TestConnection(MaxRetries)
    \/ PrimaryProbeEnds
    \/ SecondaryProbeEnds
    \/ Respond401
    \/ Respond403
    \/ Respond404
    \/ \E h \in RetryAfterHeaders : Respond429(h)
    \/ \E s \in Statuses : RespondRetryable(s)
    \/ \E s \in Statuses, b \in Bodies : RespondError(s, b)
    \/ \E s \in Statuses, b \in Bodies : RespondSuccess(s, b)
    \/ TransportTimeout
    \/ TransportConnectionError

SpecTestConnection == Init /\ [][NextTestConnection]_vars

\* one adapter, constructed, connected, disconnected and used as a block
BlockEnds == {"exited_normally", "exited_by_exception"}

NextAdapter ==
    \/ \E cls \in AdapterClasses : ConstructAdapter(cls)
    \/ \E ok \in BOOLEAN : Connect(ok)
    \/ Disconnect
    \/ \E ok \in BOOLEAN : EnterBlock(ok)
    \/ \E how \in BlockEnds : ExitBlock(how)

SpecAdapter == Init /\ [][NextAdapter]_vars

\* append_to_page on a page another client writes to
PageContents == {None, <<"a">>}

PageVersions == {1, 2}

AppendedTexts == {<<"p">>, <<"p", "q">>}

OtherTexts == {<<"x">>, <<"y">>}

InitPages ==
    /\ RequestIdle
    /\ CredIdle
    /\ RegistryIdle
    /\ ProbeIdle
    /\ AdapterIdle
    /\ CommentIdle
    /\ AppendIdle
    /\ page \in {NoPage} \cup {Page(c, v) : c \in PageContents,
                                            v \in PageVersions}

NextPages ==
    \/ \E c \in AppendedTexts : AppendToPage(c)
    \/ AppendGetPage
    \/ UpdateGetPage
    \/ UpdatePut
    \/ UpdateFetch
    \/ \E t \in OtherTexts : OtherClientWrites(t, MaxOtherWrites)

SpecPages == InitPages /\ [][NextPages]_vars

\* add_comment on an incident given either way, with any end of its POSTs
Incidents ==
    {[kind |-> "str", key |-> "SD-100"],
     [kind |-> "Incident", key |-> "SD-100"]}

CommentBodies == {<<"note">>, <<"first", "", "second">>, <<" ">>}

NextComments ==
    \/ \E i \in Incidents, b \in CommentBodies, internal \in BOOLEAN :
          AddComment(i, b, internal)
    \/ \E o \in PostOutcomes : PrimaryPostEnds(o)
    \/ \E o \in PostOutcomes : FallbackPostEnds(o)

SpecComments == Init /\ [][NextComments]_vars

\* ------------------------------------------------------------ the properties
Done == pc = "done"

IsStatus(o, S) == o.kind = "response" /\ o.status \in S

IsTransport(o) == o.kind \in {"timeout", "connection_error"}

Last(seq) == seq[Len(seq)]

\* f^a as a delay
Power(f, a) == <<f[1] ^ a, f[2] ^ a>>

Classified ==
    {"AuthenticationError", "NotFoundError", "RateLimitError",
     "ITSMConnectionError", "ProviderError"}

\* C1: a call issues at most max_retries + 1 attempts, and none after an
\* attempt that returned a success status.
C1_AttemptBound ==
    /\ Len(history) <= max_retries + 1
    /\ \A i \in 1..Len(history) :
         IsStatus(history[i], 200..299) => i = Len(history) /\ Done

C1_Witness ==
    /\ Done
    /\ max_retries >= 2
    /\ Len(history) = max_retries + 1
    /\ history[1].kind = "timeout"
    /\ IsStatus(history[2], {503})
    /\ IsStatus(Last(history), {200})

\* C2: a 401, 403 or 404 raises at once (AuthenticationError for 401 and
\* 403, NotFoundError for 404) whatever budget remains: that attempt is the
\* last one and no sleep follows it, so the sleeps are those of the earlier
\* attempts, none when it is the first attempt.
C2_TerminalStatus ==
    \A i \in 1..Len(history) :
        IsStatus(history[i], {401, 403, 404}) =>
            /\ i = Len(history)
            /\ Done
            /\ raised.type =
                 (IF history[i].status = 404 THEN "NotFoundError"
                  ELSE "AuthenticationError")
            /\ raised.status_code = history[i].status
            /\ Len(sleeps) = i - 1
            /\ (i = 1 => Len(history) = 1 /\ sleeps = <<>>)

C2_Witness ==
    /\ Done
    /\ max_retries >= 2
    /\ 401 \in retry_statuses
    /\ Len(history) = 1
    /\ IsStatus(history[1], {401})
    /\ raised.type = "AuthenticationError"
    /\ sleeps = <<>>

C4_RetryAfterHonoured ==
    \A i \in 1..Len(history) :
        (/\ IsStatus(history[i], {429})
         /\ Truthy(history[i].header)
         /\ IntParses(history[i].header)
         /\ i - 1 < max_retries)
        => /\ Len(sleeps) >= i
           /\ sleeps[i] = Seconds(IntValue(history[i].header))
           /\ (Len(history) > i \/ pc = "loop")
           /\ (Len(history) > i /\ IsStatus(history[i + 1], 200..299)
                 => Done /\ returned.status = history[i + 1].status)

\* C5: when every attempt returns 429 the call makes exactly
\* max_retries + 1 attempts and raises RateLimitError whose retry_after is
\* the Retry-After value of the final attempt if it is an integer, else the
\* backoff of attempt max_retries; RateLimitError is raised on the last
\* allowed attempt only.
C5_RateLimitExhausted ==
    /\ (Done /\ \A i \in 1..Len(history) : IsStatus(history[i], {429}))
       => /\ Len(history) = max_retries + 1
          /\ raised.type = "RateLimitError"
          /\ Seconds(raised.retry_after) =
               (IF Truthy(Last(history).header)
                   /\ IntParses(Last(history).header)
                THEN Seconds(IntValue(Last(history).header))
                ELSE Power(backoff_factor, max_retries))
    /\ (raised.type = "RateLimitError" => Len(history) = max_retries + 1)

\* C6: when every attempt fails with a timeout or a connection failure the
\* call makes exactly max_retries + 1 attempts, sleeps backoff_factor^a
\* after each attempt a but the last, and raises ITSMConnectionError that
\* says "timed out" after a final timeout and "Connection failed" after a
\* final connection failure, with that exception as its cause.
C6_TransportExhausted ==
    (Done /\ \A i \in 1..Len(history) : IsTransport(history[i]))
    => /\ Len(history) = max_retries + 1
       /\ Len(sleeps) = max_retries
       /\ \A i \in 1..Len(sleeps) : sleeps[i] = Power(backoff_factor, i - 1)
       /\ raised.type = "ITSMConnectionError"
       /\ raised.attempts = max_retries + 1
       /\ (Last(history).kind = "timeout"
             => raised.message = "Request timed out"
                /\ raised.cause = "Timeout")
       /\ (Last(history).kind = "connection_error"
             => raised.message = "Connection failed"
                /\ raised.cause = "ConnectionError")

C6_Witness ==
    /\ Done
    /\ max_retries >= 2
    /\ backoff_factor = <<3, 2>>
    /\ Len(history) = max_retries + 1
    /\ history[1].kind = "connection_error"
    /\ Last(history).kind = "timeout"
    /\ raised.type = "ITSMConnectionError"
    /\ raised.message = "Request timed out"
    /\ Len(sleeps) = max_retries

\* C7: every call through the engine either succeeds on a 2xx response or
\* raises one of the classified errors; no other exception escapes and no
\* non-2xx response is returned as a success.
C7_SuccessOrClassified ==
    Done =>
        \/ /\ raised = NoException
           /\ result # NoResult
           /\ result.status \in 200..299
        \/ raised.type \in Classified

\* C8: the delay slept after failed attempt a is backoff_factor^a; with
\* factor 2 the delays after attempts 0, 1, 2, 3 are 1, 2, 4, 8; a call
\* whose max_retries + 1 attempts all fail with a retryable server error
\* sleeps f^0, ..., f^(max_retries - 1) in that order.
C8_BackoffSequence ==
    /\ \A i \in 1..Len(sleeps) : sleeps[i] = Power(backoff_factor, i - 1)
    /\ (backoff_factor = <<2, 1>> =>
          \A i \in 1..Len(sleeps) :
             i <= 4 => sleeps[i] = Seconds(<<1, 2, 4, 8>>[i]))
    /\ (/\ Done
        /\ Len(history) = max_retries + 1
        /\ \A i \in 1..Len(history) : IsStatus(history[i], ServerErrors))
       => Len(sleeps) = max_retries

C8_Witness ==
    /\ Done
    /\ backoff_factor = <<2, 1>>
    /\ max_retries = 4
    /\ Len(history) = 5
    /\ \A i \in 1..Len(history) : IsStatus(history[i], ServerErrors)
    /\ sleeps = <<Seconds(1), Seconds(2), Seconds(4), Seconds(8)>>
    /\ raised.type = "ProviderError"

\* the values the four sources offer for field f, in precedence order; a
\* keyring entry that cannot be read offers nothing
Offers(f) ==
    <<explicit[f], environ[f],
      IF keyring_store[KeyringAccount[f]] = KeyringFailure THEN None
      ELSE keyring_store[KeyringAccount[f]],
      dotenv[f]>>

HasOffer(f) == \E i \in 1..4 : Truthy(Offers(f)[i])

FirstOffer(f) ==
    Offers(f)[CHOOSE i \in 1..4 :
                /\ Truthy(Offers(f)[i])
                /\ \A j \in 1..(i - 1) : ~Truthy(Offers(f)[j])]

\* v is u without its trailing "/" characters
StrippedOf(v, u) ==
    /\ Len(v) <= Len(u)
    /\ v = SubSeq(u, 1, Len(v))
    /\ \A i \in (Len(v) + 1)..Len(u) : u[i] = "/"

\* C9: each field is resolved on its own to the first non-empty value among
\* the explicit parameter, the environment variable, the keyring entry and
\* the .env entry, in this order; the credentials returned carry these
\* values (the base URL without its trailing "/").
C9_Precedence ==
    cred_pc # "idle" =>
        /\ \A f \in FieldSet :
             IF HasOffer(f) THEN resolved[f] = FirstOffer(f)
             ELSE ~Truthy(resolved[f])
        /\ cred_pc = "returned" =>
             /\ creds.email = FirstOffer("email")
             /\ creds.api_token = FirstOffer("api_token")
             /\ StrippedOf(creds.base_url, FirstOffer("base_url"))

C9_Witness ==
    /\ cred_pc = "returned"
    /\ explicit.base_url = <<"u", "x">>
    /\ environ.base_url = <<"u", "e", "/">>
    /\ explicit.email = <<>>
    /\ environ.email = <<"m", "e">>
    /\ keyring_store.user_email = <<"m", "k">>
    /\ ~Truthy(explicit.api_token)
    /\ environ.api_token = None
    /\ keyring_store.api_token = KeyringFailure
    /\ dotenv.api_token = <<"t", "d">>
    /\ creds = [base_url |-> <<"u", "x">>, email |-> <<"m", "e">>,
                api_token |-> <<"t", "d">>]

\* C10: get_credentials fails exactly when some field has no non-empty
\* value in any of the four sources, and the error names exactly the
\* fields that remain unresolved.
C10_MissingFields ==
    cred_pc # "idle" =>
        /\ cred_pc = "raised" <=> \E f \in FieldSet : ~HasOffer(f)
        /\ cred_pc = "raised" =>
             /\ {cred_error[i] : i \in 1..Len(cred_error)}
                  = {f \in FieldSet : ~HasOffer(f)}
             /\ Len(cred_error) = Cardinality({f \in FieldSet : ~HasOffer(f)})

C10_Witness ==
    /\ cred_pc = "raised"
    /\ cred_error = <<"base_url", "api_token">>
    /\ HasOffer("email")
    /\ explicit.base_url = <<>>
    /\ keyring_store.api_token = KeyringFailure

\* C11: every AtlassianCredentials value get_credentials returns has three
\* non-empty fields and a base_url that does not end in "/", whatever the
\* sources hold; otherwise the call fails.
C11_ReturnedCredentialsValid ==
    cred_pc = "returned" =>
        /\ \A f \in FieldSet : Truthy(creds[f])
        /\ creds.base_url[Len(creds.base_url)] # "/"

\* get_credentials ran after a save_credentials, with no explicit argument
\* and no environment variable set
RoundTrip ==
    /\ cred_pc # "idle"
    /\ saved # NoCredentials
    /\ explicit = NoCredentials
    /\ environ = NoCredentials

\* C12, for every triple: save_credentials followed by get_credentials, with no
\* explicit argument and no environment variable, returns the triple saved,
\* for every triple.
C12_RoundTripAnyTriple ==
    RoundTrip => cred_pc = "returned" /\ creds = saved

\* C12, for triples of non-empty fields: the round trip returns the email
\* and the token saved, and the base_url saved with its trailing "/"
\* characters removed.
C12_RoundTrip ==
    (RoundTrip /\ \A f \in FieldSet : Truthy(saved[f]))
    => /\ cred_pc = "returned"
       /\ creds = [saved EXCEPT !.base_url = rstrip(saved.base_url, "/")]

C12_Witness ==
    /\ RoundTrip
    /\ saved = [base_url |-> <<"u", "s", "/">>, email |-> <<"m", "s">>,
                api_token |-> <<"t", "s">>]
    /\ dotenv.email = <<"m", "d">>
    /\ cred_pc = "returned"
    /\ creds = [base_url |-> <<"u", "s">>, email |-> <<"m", "s">>,
                api_token |-> <<"t", "s">>]

\* C13: delete_credentials attempts the deletion of the three entries
\* base_url, user_email and api_token, also when some do not exist: a
\* missing entry neither ends the loop nor raises to the caller, and none
\* of the three entries remains afterwards.
C13_DeleteAll ==
    delete_log # <<>> =>
        /\ [i \in 1..Len(delete_log) |-> delete_log[i].account]
             = <<"base_url", "user_email", "api_token">>
        /\ delete_raised = "None"
        /\ \A a \in AccountSet : keyring_store[a] = None

C13_Witness ==
    /\ delete_log # <<>>
    /\ delete_log[1].outcome = "PasswordDeleteError"
    /\ delete_log[2].outcome = "deleted"
    /\ delete_log[3].outcome = "deleted"
    /\ keyring_store = EmptyKeyring

\* the registrations made so far under a name of an interface_type, in order
LogFor(t, name) ==
    SelectSeq(reg_log, LAMBDA e : InterfaceRegistry[e.interface] = t
                                  /\ e.name = name)

\* the names registered so far for an interface_type
NamesRegistered(t) ==
    {reg_log[i].name : i \in {j \in 1..Len(reg_log) :
                                InterfaceRegistry[reg_log[j].interface] = t}}

\* the name registered first for an interface_type
FirstRegistered(t) ==
    reg_log[CHOOSE i \in 1..Len(reg_log) :
              /\ InterfaceRegistry[reg_log[i].interface] = t
              /\ \A j \in 1..(i - 1) :
                    InterfaceRegistry[reg_log[j].interface] # t].name

\* the provider variable of each interface_type
ProviderVariable ==
    [issue_tracker |-> ITSM_ISSUE_TRACKER_PROVIDER,
     wiki |-> ITSM_WIKI_PROVIDER,
     incidents |-> ITSM_INCIDENTS_PROVIDER]

\* the last getter call made no constructor call
ConstructedNothing ==
    /\ constructions = last_call.constructions
    /\ reg_result.instance = NoInstance

\* the last getter call called cls once, with the config mapping or an
\* empty mapping, and returned what the constructor made unless the
\* constructor raised
ConstructedBy(cls) ==
    /\ constructions = last_call.constructions + 1
    /\ ctor_args = [cls |-> cls,
                    config |-> IF last_call.config = None
                               THEN <<>> ELSE last_call.config]
    /\ \/ /\ reg_result.kind = "instance"
          /\ reg_result.instance = Last(instances)
          /\ reg_result.instance.cls = cls
       \/ /\ reg_result.kind = "error"
          /\ reg_result.type = "ValueError"

\* the last getter call raised the error that lists the names registered
\* for the interface_type
NotFoundListing(t) ==
    /\ reg_result.kind = "error"
    /\ reg_result.type = "ITSMError"
    /\ {reg_result.available[i] : i \in 1..Len(reg_result.available)}
         = NamesRegistered(t)
    /\ Len(reg_result.available) = Cardinality(NamesRegistered(t))

\* C14: a getter called with a name returns an instance constructed by the
\* class registered last under that name for its interface, called with
\* the config mapping or an empty mapping; called with a name not
\* registered for its interface it raises the error that lists exactly the
\* names registered for that interface, and constructs nothing.
C14_GetterConstructs ==
    (last_call.op = "get" /\ last_call.provider # None) =>
        LET regs == LogFor(last_call.interface_type, last_call.provider)
        IN  IF regs # <<>>
            THEN ConstructedBy(Last(regs).cls)
            ELSE /\ NotFoundListing(last_call.interface_type)
                 /\ ConstructedNothing

C14_Witness ==
    /\ last_call.op = "get"
    /\ last_call.provider = atlassian_jira
    /\ last_call.config # None
    /\ Len(LogFor("issue_tracker", atlassian_jira)) = 2
    /\ reg_log[1].cls = "JiraAdapter"
    /\ reg_result.kind = "instance"
    /\ reg_result.instance.cls = "CustomAdapter"

\* C15: a getter called without a name uses the value of the provider
\* variable of its interface if that is set and non-empty, otherwise the
\* provider registered first for the interface, otherwise it fails; a
\* value of the variable that names no registered provider is an error
\* and nothing is constructed.
C15_DefaultProvider ==
    (last_call.op = "get" /\ last_call.provider = None) =>
        LET t == last_call.interface_type
            v == provider_env[ProviderVariable[t]]
        IN  IF Truthy(v)
            THEN /\ reg_result.provider = v
                 /\ IF LogFor(t, v) # <<>>
                    THEN ConstructedBy(Last(LogFor(t, v)).cls)
                    ELSE NotFoundListing(t) /\ ConstructedNothing
            ELSE IF NamesRegistered(t) # {}
            THEN /\ reg_result.provider = FirstRegistered(t)
                 /\ ConstructedBy(Last(LogFor(t, FirstRegistered(t))).cls)
            ELSE /\ reg_result.kind = "error"
                 /\ reg_result.type = "ITSMError"
                 /\ reg_result.provider = None
                 /\ ConstructedNothing

C15_Witness ==
    /\ last_call.op = "get"
    /\ last_call.provider = None
    /\ last_call.interface_type = "issue_tracker"
    /\ provider_env[ITSM_ISSUE_TRACKER_PROVIDER] = None
    /\ Len(registry.issue_tracker) = 2
    /\ reg_result.kind = "instance"
    /\ reg_result.provider = custom
    /\ reg_log[1].name = custom

\* C16: any two instances the getters returned are distinct objects with
\* distinct HTTP sessions and distinct credential resolutions, and every
\* call that returned an instance made one constructor call.
C16_NoCaching ==
    /\ \A i, j \in 1..Len(instances) :
          i # j => /\ instances[i].id # instances[j].id
                   /\ instances[i].session # instances[j].session
                   /\ instances[i].resolution # instances[j].resolution
    /\ reg_result.kind = "instance" =>
          /\ constructions = last_call.constructions + 1
          /\ reg_result.instance = Last(instances)

C16_Witness ==
    /\ Len(instances) = 2
    /\ instances[1].cls = instances[2].cls
    /\ reg_result.kind = "instance"
    /\ reg_result.instance = instances[2]

\* C17: after a getter or list_adapters has run, atlassian_jira,
\* atlassian_confluence and atlassian_jsm are registered under the
\* issue-tracker, wiki and incident registries.
C17_AdaptersDiscoverable ==
    last_call.op \in {"get", "list"} =>
        /\ Contains(registry.issue_tracker, atlassian_jira)
        /\ Contains(registry.wiki, atlassian_confluence)
        /\ Contains(registry.incidents, atlassian_jsm)

\* attempt i was the last one of the call
FinalAttempt(i) == i = Len(history) /\ Done

\* after attempt i the engine slept and went on to the next attempt
Retried(i) == ~FinalAttempt(i) /\ Len(sleeps) >= i

\* C20: the status of every response is classified in a fixed order: 401,
\* 403 and 404 end the call even when listed in retry_statuses; a 429 is
\* retried while attempts remain even when not listed, and raises
\* RateLimitError when none remain; another status of retry_statuses is
\* retried while attempts remain; any other status >= 400 raises
\* ProviderError at once; every remaining status is returned.
C20_ClassificationOrder ==
    \A i \in 1..Len(history) :
        history[i].kind = "response" =>
            LET s == history[i].status
                remain == i - 1 < max_retries
            IN  IF s \in {401, 403}
                THEN FinalAttempt(i) /\ raised.type = "AuthenticationError"
                ELSE IF s = 404
                THEN FinalAttempt(i) /\ raised.type = "NotFoundError"
                ELSE IF s = 429
                THEN IF remain
                     THEN Retried(i)
                     ELSE /\ FinalAttempt(i)
                          /\ raised.type = "RateLimitError"
                ELSE IF s \in retry_statuses /\ remain
                THEN Retried(i)
                ELSE IF s >= 400
                THEN /\ FinalAttempt(i)
                     /\ raised.type = "ProviderError"
                     /\ raised.message = "Request failed"
                     /\ raised.status_code = s
                ELSE FinalAttempt(i) /\ returned = history[i]

\* the probe ended by its _get returning
ProbeSucceeded(p) == p.raised = NoException

ProbeNotFound(p) == p.raised.type = "NotFoundError"

\* C18: test_connection returns True when the primary probe succeeds; when
\* the primary probe ends in NotFoundError it issues the secondary probe
\* and returns True if that succeeds or ends in NotFoundError too; an
\* AuthenticationError of either probe leaves test_connection unchanged.
C18_TestConnection ==
    /\ tc_pc = "secondary" =>
          /\ Len(probes) = 1
          /\ probes[1].path = "/rest/api/3/serverInfo"
          /\ ProbeNotFound(probes[1])
    /\ tc_pc = "done" =>
          /\ probes[1].path = "/rest/api/3/serverInfo"
          /\ ProbeSucceeded(probes[1]) =>
                Len(probes) = 1 /\ tc_returned = "True"
          /\ ProbeNotFound(probes[1]) =>
                /\ Len(probes) = 2
                /\ probes[2].path = "/rest/api/3/myself"
                /\ (ProbeSucceeded(probes[2]) \/ ProbeNotFound(probes[2]))
                      => tc_returned = "True"
          /\ \A i \in 1..Len(probes) :
                probes[i].raised.type = "AuthenticationError" =>
                    /\ i = Len(probes)
                    /\ tc_raised = probes[i].raised
                    /\ tc_returned = "None"
          /\ tc_returned = "True" => tc_raised = NoException

C18_Witness ==
    /\ tc_pc = "done"
    /\ Len(probes) = 2
    /\ ProbeNotFound(probes[1])
    /\ ProbeNotFound(probes[2])
    /\ tc_returned = "True"

\* the methods called from position i of the log on begin with first, then
\* second
CalledInOrder(first, second) ==
    \E i \in 1..(Len(calls) - 1) : calls[i] = first /\ calls[i + 1] = second

\* C19: an adapter used as a with block has connect() called on entry and
\* disconnect() called on exit, however the block ends, and after the
\* block its HTTP session is closed and its connected flag is false.
C19_ScopedBlock ==
    block \in BlockEnds =>
        /\ CalledInOrder("__enter__", "connect")
        /\ CalledInOrder("__exit__", "disconnect")
        /\ ~session_open
        /\ ~connected

\* the 429 response carries no Retry-After header the engine can use: none,
\* an empty one, or one that does not parse as an integer
NoUsableRetryAfter(o) == ~(Truthy(o.header) /\ IntParses(o.header))

\* C21: when a 429 carries no Retry-After header or one that does not parse
\* as an integer, the delay slept, and the retry_after of the
\* RateLimitError on exhaustion, is backoff_factor^attempt, also for the
\* factor 1.5.
C21_BackoffFallback ==
    \A i \in 1..Len(history) :
        (IsStatus(history[i], {429}) /\ NoUsableRetryAfter(history[i])) =>
            IF i - 1 < max_retries
            THEN Len(sleeps) >= i /\ sleeps[i] = Power(backoff_factor, i - 1)
            ELSE /\ raised.type = "RateLimitError"
                 /\ Seconds(raised.retry_after)
                      = Power(backoff_factor, i - 1)

\* the keyring raised while field f was read, and neither an explicit
\* argument nor the environment had resolved the field before
KeyringRaisedFor(f) ==
    /\ keyring_store[KeyringAccount[f]] = KeyringFailure
    /\ ~Truthy(explicit[f])
    /\ ~Truthy(environ[f])

\* the ValueError of get_credentials names field f
Named(f) == \E i \in 1..Len(cred_error) : cred_error[i] = f

\* C22: an error the keyring raises while a field is read never leaves
\* get_credentials: the field is taken from the .env file as if the keyring
\* had no entry for it (and reported missing when the file has none), and
\* the other fields are resolved as without the error.
C22_KeyringErrorSwallowed ==
    cred_pc # "idle" =>
        /\ cred_pc \in {"returned", "raised"}
        /\ \A f \in FieldSet :
             IF KeyringRaisedFor(f)
             THEN IF Truthy(dotenv[f])
                  THEN resolved[f] = dotenv[f]
                  ELSE /\ ~Truthy(resolved[f])
                       /\ cred_pc = "raised"
                       /\ Named(f)
             ELSE IF HasOffer(f)
             THEN resolved[f] = FirstOffer(f) /\ ~Named(f)
             ELSE Named(f)

C22_Witness ==
    /\ cred_pc = "returned"
    /\ KeyringRaisedFor("base_url")
    /\ dotenv.base_url = <<"u", "d", "/">>
    /\ ~Truthy(explicit.email)
    /\ ~Truthy(environ.email)
    /\ keyring_store.user_email = <<"m", "k">>
    /\ creds.base_url = <<"u", "d">>
    /\ creds.email = <<"m", "k">>

\* the import step passed over the error the import of this package raised
PassedOver(e) == e.error \in ImportErrors

\* C23: the import step passes over the failure of an import only for a
\* package that is not installed, and then goes on to the remaining
\* packages; a failure raised inside an installed package, such as a
\* broken import in one of its modules, is not passed over.
C23_OnlyMissingPackagesSkipped ==
    /\ \A i \in 1..Len(import_log) :
          PassedOver(import_log[i]) =>
              import_log[i].package \notin DOMAIN PackageImports
    /\ (import_log # <<>>
        /\ \A i \in 1..Len(import_log) :
              import_log[i].error = "None" \/ PassedOver(import_log[i]))
       => Len(import_log) = Len(AdapterPackages)

\* the call went through a convenience wrapper and _request returned a
\* response with a success status
WrapperSucceeded ==
    /\ Done
    /\ method # "REQUEST"
    /\ returned # NoResponse
    /\ returned.status \in 200..299

\* the wrapper called response.json()
ParseAttempted == result.kind = "dict" \/ raised.type = "JSONDecodeError"

\* C24: on a successful response _get returns the parsed body as a mapping;
\* _post and _put return an empty mapping for 204 and the parsed body
\* otherwise; _delete returns None for 204 and the parsed body otherwise;
\* no wrapper parses the body of a 204 response.
C24_WrapperResults ==
    WrapperSucceeded =>
        /\ raised = NoException
        /\ result.kind =
             IF returned.status = 204 /\ method \in {"POST", "PUT"}
             THEN "empty_dict"
             ELSE IF returned.status = 204 /\ method = "DELETE"
             THEN "None"
             ELSE "dict"
        /\ returned.status = 204 => ~ParseAttempted

\* C25: in every _request call that has ended the number of sleeps is the
\* number of HTTP attempts minus one; while the call runs every sleep made
\* so far has been followed by the next pass of the loop, so no sleep comes
\* after the final attempt, before a raise or before a return.
C25_SleepsBetweenAttempts ==
    /\ Done => Len(sleeps) = Len(history) - 1
    /\ pc = "loop" => /\ Len(sleeps) = Len(history)
                      /\ attempt = Len(sleeps)

C25_Witness ==
    /\ Done
    /\ Len(history) = 3
    /\ Len(sleeps) = 2
    /\ IsStatus(history[1], {503})
    /\ IsTransport(history[2])
    /\ raised.type = "RateLimitError"

\* the statuses that end a call whatever the budget
TerminalStatuses == {401, 403, 404}

\* the call used its last allowed attempt and that attempt failed with an
\* outcome that is not raised at once whatever the budget
BudgetExhausted ==
    /\ Done
    /\ Len(history) = max_retries + 1
    /\ \/ IsTransport(Last(history))
       \/ IsStatus(Last(history), {s \in Statuses : s >= 400}
                                    \ TerminalStatuses)

GenericFailure ==
    /\ raised.type = "ProviderError"
    /\ raised.message = "Request failed after all retry attempts"

\* C26: the error raised once the budget is exhausted depends on the outcome
\* of the final attempt alone, whatever the earlier attempts failed with:
\* RateLimitError after a 429, ProviderError carrying the status after
\* another status >= 400, ITSMConnectionError saying "timed out" after a
\* timeout and "Connection failed" after a connection failure; the
\* ProviderError "Request failed after all retry attempts" is never raised.
C26_FinalAttemptDecides ==
    /\ BudgetExhausted =>
         LET final == Last(history)
         IN  IF final.kind = "timeout"
             THEN /\ raised.type = "ITSMConnectionError"
                  /\ raised.message = "Request timed out"
             ELSE IF final.kind = "connection_error"
             THEN /\ raised.type = "ITSMConnectionError"
                  /\ raised.message = "Connection failed"
             ELSE IF final.status = 429
             THEN raised.type = "RateLimitError"
             ELSE /\ raised.type = "ProviderError"
                  /\ raised.message = "Request failed"
                  /\ raised.status_code = final.status
    /\ ~GenericFailure

C26_Witness ==
    /\ BudgetExhausted
    /\ max_retries = 2
    /\ history[1].kind = "timeout"
    /\ IsStatus(history[2], {429})
    /\ history[3].kind = "connection_error"
    /\ raised.type = "ITSMConnectionError"
    /\ raised.message = "Connection failed"

\* one HTTP attempt of the call in progress ends, with the sleep that
\* follows it when the engine retries
Attempt ==
    \/ Respond401
    \/ Respond403
    \/ Respond404
    \/ \E h \in RetryAfterHeaders : Respond429(h)
    \/ \E s \in Statuses : RespondRetryable(s)
    \/ \E s \in Statuses, b \in Bodies : RespondError(s, b)
    \/ \E s \in Statuses, b \in Bodies : RespondSuccess(s, b)
    \/ TransportTimeout
    \/ TransportConnectionError

\* _request called directly, with any configuration and any outcome of
\* every attempt
NextTermination ==
    \/ BeginRequest(MaxRetries) /\ method' = "REQUEST"
    \/ Attempt

\* every HTTP attempt returns a response or raises, and every sleep ends
SpecTermination == Init /\ [][NextTermination]_vars /\ WF_vars(Attempt)

\* the engine goes from one pass of the loop to the next
Retry == pc = "loop" /\ pc' = "loop"

\* C27: when every HTTP attempt ends and every sleep ends, every _request
\* call returns or raises, whatever max_retries, retry_statuses and the
\* outcomes of the attempts are; the attempt counter grows on every retry.
C27_Terminates ==
    /\ (pc = "loop") ~> Done
    /\ [][Retry => attempt' > attempt]_vars

C27_Witness ==
    /\ Done
    /\ max_retries = 2
    /\ attempt = 2
    /\ Len(history) = 3
    /\ retry_statuses # DEFAULT_RETRY_STATUSES
    /\ IsStatus(history[1], {400})
    /\ IsStatus(history[2], {429})
    /\ IsStatus(history[3], {200})
    /\ raised = NoException

\* probe i of the call ended with an error that is not NotFoundError
OtherError(i) ==
    /\ probes[i].raised # NoException
    /\ probes[i].raised.type # "NotFoundError"

\* C28: test_connection returns True or raises and never returns another
\* value; the secondary probe is issued only after the primary probe raised
\* NotFoundError; a call issues at most two probes; an error other than
\* NotFoundError from either probe ends the call and reaches the caller.
C28_TrueOrRaises ==
    /\ tc_returned \in {"None", "True"}
    /\ tc_pc = "done" => (tc_returned = "True") # (tc_raised # NoException)
    /\ Len(probes) <= 2
    /\ (tc_pc = "secondary" \/ Len(probes) = 2) =>
          /\ probes[1].path = ProbePaths[1]
          /\ probes[1].raised.type = "NotFoundError"
    /\ \A i \in 1..Len(probes) :
          OtherError(i) => /\ i = Len(probes)
                           /\ tc_pc = "done"
                           /\ tc_raised = probes[i].raised
                           /\ tc_returned = "None"

C28_Witness ==
    /\ tc_pc = "done"
    /\ Len(probes) = 2
    /\ probes[1].raised.type = "NotFoundError"
    /\ probes[2].path = ProbePaths[2]
    /\ probes[2].raised.type = "RateLimitError"
    /\ tc_raised.type = "RateLimitError"
    /\ tc_returned = "None"

\* text t stands in content c from position i on
StandsAt(t, c, i) ==
    /\ i + Len(t) - 1 <= Len(c)
    /\ SubSeq(c, i, i + Len(t) - 1) = t

\* content c holds text t and, after it, text u
Followed(t, u, c) ==
    \E i \in 1..Len(c), j \in 1..Len(c) :
        /\ StandsAt(t, c, i)
        /\ StandsAt(u, c, j)
        /\ j >= i + Len(t)

\* the writes of the other client that came between the read of the
\* existing content and the PUT
Between ==
    {i \in 1..Len(others) : others[i].during \in {"update_get", "put"}}

\* C29: append_to_page never loses the update of another writer: when
\* another client changes the page between the read of the existing content
\* and the write, the write is rejected, or the content stored afterwards
\* holds the change of the other client followed by the appended text.
C29_NoLostUpdate ==
    \A i \in Between :
        put_outcome = "accepted" =>
            Followed(others[i].text, ap_content, ContentOrEmpty(page.content))

\* C30: add_comment called with internal=True sends no comment request
\* without the marker that makes the comment non-public, on the first POST
\* and on the fallback POST alike, so the comment created is internal.
C30_InternalStaysInternal ==
    ac_args.internal =>
        /\ \A i \in 1..Len(ac_requests) : ac_requests[i].public = "false"
        /\ ac_created # 0 => ac_requests[ac_created].public = "false"

====
